---- MODULE Spec2Model ----
(***************************************************************************)
(* A model of the content pipeline of shaphero.github.io:                  *)
(*   - ContentKnowledgeGraph (src/src/content_agents.py): register_topic   *)
(*     and get_related_content;                                            *)
(*   - ContentEditorInChief.create_blog_post, driven by main() of          *)
(*     src/generate_content.py;                                            *)
(*   - KnowledgeArchitect.create_knowledge_content                         *)
(*     (src/src/knowledge_agents.py).                                      *)
(*                                                                         *)
(* Python values are modelled as follows.  A dict is the sequence of its   *)
(* items in insertion order (Python 3.7+ keeps it).  A set is a TLA+ set.  *)
(* A float that is a quotient of two small integers is the pair of its     *)
(* numerator and denominator, compared by cross-multiplication.  Clock     *)
(* readings ('created', 'timestamp') are left out.  Topic names are opaque *)
(* labels that the code only compares for equality: the k-th distinct      *)
(* topic to be registered is named k.                                      *)
(***************************************************************************)
EXTENDS Integers, Sequences, FiniteSets, TLC

VARIABLES
    topics_covered,   \* ContentKnowledgeGraph.topics_covered: items in insertion order
    keyword_map,      \* ContentKnowledgeGraph.keyword_map: items in insertion order
    registrations,    \* history: the register_topic calls made so far, in order
    ret,              \* the last graph operation and what it returned
    concepts,         \* KnowledgeGraph.concepts: items in insertion order
    variant,          \* the orchestrator of the run: "none", "content" or "knowledge"
    brief,            \* the brief the run was given
    pc,               \* the caller's view of the run: "idle", "running", "returned",
                      \* "failed" (an exception left the run), "saved"
    step,             \* the number of the next statement of the run
    inflight,         \* the steps whose collaborator call has started and not ended
    locals,           \* the local variables of the run that hold phase results
    calls,            \* history: the collaborator calls of the run, in order of start
    started,          \* history: the names of the steps of the run, in order of start
    record,           \* what the run returned
    error,            \* the exception that reached the caller of the run
    failedAt,         \* history: the step whose collaborator call failed
    saved,            \* what the driver of the run has written with save_content
    rich,             \* the number of collaborator outputs that are not the plain one
    relationships,    \* KnowledgeGraph.relationships
    kret,             \* the last find_knowledge_gaps call and what it returned
    kcalls,           \* history: the add_concept and add_relationship calls, in order
    returns,          \* history: what the collaborator handed back in the run, in order
    thrown,           \* history: the exception the collaborator raised in the run
    completed_topics, \* history: the topics registered by the completed runs of the process
    tasks,            \* the runs that share one orchestrator, by task
    subtopics,        \* the argument of create_content_series
    posts,            \* the list create_content_series builds
    lines,            \* markdown_to_astro_html: the lines of the text
    i,                \* the index of the line the loop is at
    in_section,
    section_content,
    bullets,          \* the items collected by the inner loop of the bullet branch
    html_parts,
    visits,           \* history: how often the index has moved past each line
    where             \* where markdown_to_astro_html is: none, loop, bullets, done

gvars == <<topics_covered, keyword_map, registrations, ret>>

pvars == <<concepts, variant, brief, pc, step, inflight, locals, calls, started,
           record, error, failedAt, saved, rich>>

kvars == <<relationships, kret, kcalls>>

hvars == <<returns, thrown, completed_topics>>

svars == <<subtopics, posts>>

cvars == <<lines, i, in_section, section_content, bullets, html_parts, visits, where>>

vars == <<topics_covered, keyword_map, registrations, ret,
          concepts, variant, brief, pc, step, inflight, locals, calls, started,
          record, error, failedAt, saved, rich,
          relationships, kret, kcalls, returns, thrown, completed_topics, tasks,
          subtopics, posts,
          lines, i, in_section, section_content, bullets, html_parts, visits, where>>

-----------------------------------------------------------------------------
(* Bounds and inputs *)

\* Two regions of call sequences are explored.  In the first, at most MaxCalls
\* registrations are made, of new or of already registered topics, with any
\* list of KwLists.
MaxCalls == 4

\* In the second, at most WideTopics distinct topics are registered once each with
\* a list of WideKwLists: enough topics for the [:5] of get_related_content to cut.
WideTopics == 7

\* [:5] in get_related_content
TopN == 5

Keywords == {"x", "y", "z"}

\* the keyword lists register_topic is called with ([primary_keyword] + secondary_keywords)
KwLists == { <<>>, <<"x", "y">>, <<"y", "z">> }

\* the keyword lists of the specification with many topics
WideKwLists == { <<"x", "y">>, <<"y", "z">>, <<"z", "z">> }

\* the performance argument of the one call site of register_topic
Performances == { [status |-> "completed", score |-> 0] }

Min(a, b) == IF a < b THEN a ELSE b

-----------------------------------------------------------------------------
(* Python dicts as sequences of items [key, value] in insertion order *)

DictKeys(d) == { d[ix].key : ix \in DOMAIN d }

DictGet(d, k) == d[CHOOSE ix \in DOMAIN d : d[ix].key = k].value

\* d[k] = v moves k to the end: what a delete-and-insert would do
DictSetMoveToEnd(d, k, v) ==
    Append(SelectSeq(d, LAMBDA it : it.key # k), [key |-> k, value |-> v])

\* d[k] = v: a present key keeps its place, a new key goes to the end
DictSet(d, k, v) ==
    IF k \in DictKeys(d)
    THEN [ix \in DOMAIN d |-> IF d[ix].key = k THEN [key |-> k, value |-> v] ELSE d[ix]]
    ELSE Append(d, [key |-> k, value |-> v])

\* set(list)
ToSet(s) == { s[ix] : ix \in DOMAIN s }

\* how often x occurs in the list s
Count(s, x) == Cardinality({ ix \in DOMAIN s : s[ix] = x })

-----------------------------------------------------------------------------
(* ContentKnowledgeGraph.register_topic *)

\* the list under the keyword is replaced instead of extended
IndexAssign(km, keyword, topic) == DictSet(km, keyword, <<topic>>)

\* the index keeps one entry per topic: append only when the topic is not listed yet
IndexAppendDedup(km, keyword, topic) ==
    IF keyword \notin DictKeys(km)
    THEN DictSet(km, keyword, <<topic>>)
    ELSE IF Count(DictGet(km, keyword), topic) > 0
         THEN km
         ELSE DictSet(km, keyword, Append(DictGet(km, keyword), topic))

\* the body of the loop over keywords
IndexAppend(km, keyword, topic) ==
    LET km1 == IF keyword \notin DictKeys(km) THEN DictSet(km, keyword, <<>>) ELSE km
    IN  DictSet(km1, keyword, Append(DictGet(km1, keyword), topic))

\* only the first keyword of the list is indexed
IndexFirst(km, keywords, topic) ==
    IF keywords = <<>> THEN km ELSE IndexAppend(km, Head(keywords), topic)

RECURSIVE IndexAll(_, _, _)
\* for keyword in keywords: ...
IndexAll(km, keywords, topic) ==
    IF keywords = <<>> THEN km
    ELSE IndexAll(IndexAppend(km, Head(keywords), topic), Tail(keywords), topic)

register_topic(topic, keywords, performance) ==
    /\ topics_covered' = DictSet(topics_covered, topic,
                                 [keywords |-> keywords, performance |-> performance])
    /\ keyword_map' = IndexAll(keyword_map, keywords, topic)

-----------------------------------------------------------------------------
(* ContentKnowledgeGraph.get_related_content *)

\* relevance = len(overlap) / len(topic_keywords), with len of the keyword list
RelevanceOfList(overlap, keywords) ==
    [num |-> Cardinality(overlap), den |-> Len(keywords)]

\* relevance = len(overlap) / len(topic_keywords): topic_keywords is a set
Relevance(overlap, keywords) ==
    [num |-> Cardinality(overlap), den |-> Cardinality(ToSet(keywords))]

\* r1 < r2 for two quotients
RelLess(r1, r2) == r1.num * r2.den < r2.num * r1.den

RelEq(r1, r2) == r1.num * r2.den = r2.num * r1.den

\* the filter keeps every other topic, sharing a keyword or not
IsRelatedNoFilter(item, topic, topic_keywords) ==
    item.key # topic

\* the two conditions of the loop body
IsRelated(item, topic, topic_keywords) ==
    /\ item.key # topic
    /\ (topic_keywords \cap ToSet(item.value.keywords)) # {}

\* the list 'related' before it is sorted
RelatedList(d, topic) ==
    LET kws == DictGet(d, topic).keywords
        topic_keywords == ToSet(kws)
        hits == SelectSeq(d, LAMBDA it : IsRelated(it, topic, topic_keywords))
    IN  [ix \in DOMAIN hits |->
            LET overlap == topic_keywords \cap ToSet(hits[ix].value.keywords)
            IN  [topic |-> hits[ix].key,
                 overlap |-> overlap,
                 relevance |-> Relevance(overlap, kws)]]

RECURSIVE InsertDesc(_, _)
\* e goes behind every entry that is at least as relevant
InsertDesc(sorted, e) ==
    IF sorted = <<>> THEN <<e>>
    ELSE IF RelLess(Head(sorted).relevance, e.relevance)
         THEN <<e>> \o sorted
         ELSE <<Head(sorted)>> \o InsertDesc(Tail(sorted), e)

RECURSIVE InsertDescUnstable(_, _)
\* e goes in front of the entries that are as relevant
InsertDescUnstable(sorted, e) ==
    IF sorted = <<>> THEN <<e>>
    ELSE IF ~RelLess(e.relevance, Head(sorted).relevance)
         THEN <<e>> \o sorted
         ELSE <<Head(sorted)>> \o InsertDescUnstable(Tail(sorted), e)

RECURSIVE SortedUnstable(_)
\* a sort by descending relevance that reverses the order of equal entries
SortedUnstable(s) ==
    IF s = <<>> THEN <<>>
    ELSE InsertDescUnstable(SortedUnstable(SubSeq(s, 1, Len(s) - 1)), s[Len(s)])

RECURSIVE SortedByRelevance(_)
\* sorted(related, key=relevance, reverse=True): stable
SortedByRelevance(s) ==
    IF s = <<>> THEN <<>>
    ELSE InsertDesc(SortedByRelevance(SubSeq(s, 1, Len(s) - 1)), s[Len(s)])

\* no slice
TopSliceAll(s) == s

\* [:5]
TopSlice(s) == SubSeq(s, 1, Min(TopN, Len(s)))

\* what a call hands back: a value, or the exception it raised
Return(v) == [value |-> v, raised |-> "none"]

Raise(e) == [value |-> <<>>, raised |-> e]

get_related_content(topic) ==
    IF topic \in DictKeys(topics_covered)
    THEN LET related == RelatedList(topics_covered, topic)
         IN  IF \E ix \in DOMAIN related : related[ix].relevance.den = 0
             THEN Raise("ZeroDivisionError")
             ELSE Return(TopSlice(SortedByRelevance(related)))
    ELSE Return(<<>>)

-----------------------------------------------------------------------------
(* Briefs, agents and what the generation collaborator hands back *)

\* ContentBrief: the fields the run reads
ContentBriefs ==
    { [topic |-> 1, primary_keyword |-> "x", secondary_keywords |-> <<"y">>,
       content_type |-> "how-to", word_count |-> 2000],
      [topic |-> 2, primary_keyword |-> "y", secondary_keywords |-> <<"z", "y">>,
       content_type |-> "case-study", word_count |-> 3000] }

\* KnowledgeBrief: the fields the run reads
KnowledgeBriefs ==
    { [topic |-> 1, depth_level |-> "advanced", information_density |-> "high",
       data_requirements |-> <<"research papers">>],
      [topic |-> 2, depth_level |-> "expert", information_density |-> "maximum",
       data_requirements |-> <<>>] }

\* the brief research_keywords builds for its call: ContentBrief(topic=topic, ...)
KeywordResearchBrief(topic) ==
    [topic |-> topic, primary_keyword |-> "topic", secondary_keywords |-> <<>>,
     content_type |-> "research", word_count |-> 0]

\* the brief find_primary_sources, analyze_data, map_concepts and create_explanations
\* build for their call: KnowledgeBrief(topic=topic, ...)
AgentKnowledgeBrief(var, topic, data_sources) ==
    CASE var = "primary_sources" ->
            [topic |-> topic, depth_level |-> "expert", information_density |-> "high",
             data_requirements |-> <<"primary sources">>]
      [] var = "data_analysis" ->
            [topic |-> topic, depth_level |-> "expert", information_density |-> "high",
             data_requirements |-> data_sources]
      [] var = "concept_map" ->
            [topic |-> topic, depth_level |-> "advanced", information_density |-> "high",
             data_requirements |-> <<>>]
      [] OTHER ->
            [topic |-> topic, depth_level |-> "expert", information_density |-> "progressive",
             data_requirements |-> <<>>]

\* ContentEditorInChief._initialize_agents: the keys of self.agents
ContentAgents ==
    << "seo_researcher", "headline_optimizer", "narrative_architect", "data_storyteller",
       "content_creator", "seo_optimizer", "readability_editor", "fact_checker",
       "cta_specialist", "quality_auditor" >>

\* KnowledgeArchitect._initialize_agents: the keys of self.agents
KnowledgeAgents ==
    << "primary_researcher", "data_scientist", "concept_mapper", "complexity_translator",
       "academic_researcher", "industry_analyst", "contrarian_researcher",
       "historical_analyst", "framework_builder", "analogy_master", "fact_verificator",
       "visual_explainer", "example_generator", "question_anticipator", "summary_master" >>

\* a local variable that has not been assigned
Unset == [unset |-> TRUE]

Bodies == { "a", "b" }

\* the concepts a research output may carry; without 'evidence_level' the default applies
ConceptLists ==
    { <<>>,
      << [name |-> "c1", definition |-> "d1", has_evidence |-> FALSE, evidence_level |-> 0] >>,
      << [name |-> "c2", definition |-> "d2", has_evidence |-> TRUE, evidence_level |-> 9],
         [name |-> "c1", definition |-> "d3", has_evidence |-> TRUE, evidence_level |-> 6] >>,
      << [name |-> "c3", definition |-> "d4", has_evidence |-> TRUE, evidence_level |-> 12] >> }

\* the plain output, shaped like the one of the placeholder _call_claude
PlainOutput(role) ==
    [role |-> role, body |-> "a", has_concepts |-> FALSE, concepts |-> <<>>]

\* the structured results the collaborator may hand back to an agent of this role
Outputs(role) ==
    { [role |-> role, body |-> b, has_concepts |-> FALSE, concepts |-> <<>>] : b \in Bodies }
    \cup { [role |-> role, body |-> "a", has_concepts |-> TRUE, concepts |-> cl] :
             cl \in ConceptLists }

\* the errors the collaborator may raise
CollaboratorErrors ==
    { [type |-> "TimeoutError", message |-> "timed out"],
      [type |-> "APIError", message |-> "overloaded"] }

\* the number of outputs of a run that differ from the plain one
MaxRich == 1

\* concept.get('evidence_level', 0.5), in tenths
EvidenceDefault == 5

\* data['evidence_level'] < 0.7, in tenths
WeakBelow == 7

-----------------------------------------------------------------------------
(* KnowledgeGraph *)

add_concept(cs, concept, definition, evidence_level) ==
    DictSet(cs, concept, [definition |-> definition, evidence_level |-> evidence_level,
                          connections |-> <<>>, prerequisites |-> <<>>,
                          implications |-> <<>>])

\* the loop ends after the first concept
AddConceptsFirst(cs, list) ==
    IF list = <<>> THEN cs
    ELSE add_concept(cs, Head(list).name, Head(list).definition,
                     IF Head(list).has_evidence THEN Head(list).evidence_level
                                                ELSE EvidenceDefault)

RECURSIVE AddConcepts(_, _)
\* ResearchAgent.research: for concept in output['concepts']: add_concept(...)
AddConcepts(cs, list) ==
    IF list = <<>> THEN cs
    ELSE AddConcepts(
             add_concept(cs, Head(list).name, Head(list).definition,
                         IF Head(list).has_evidence THEN Head(list).evidence_level
                                                    ELSE EvidenceDefault),
             Tail(list))

\* the add_concept calls research makes for an output
ConceptCalls(output) ==
    IF output.has_concepts
    THEN [ix \in 1 .. Len(output.concepts) |->
             [op |-> "add_concept", concept |-> output.concepts[ix].name,
              definition |-> output.concepts[ix].definition,
              evidence_level |-> IF output.concepts[ix].has_evidence
                                 THEN output.concepts[ix].evidence_level
                                 ELSE EvidenceDefault]]
    ELSE <<>>

\* an output without concepts empties the graph
AddFindingsReset(cs, output) ==
    IF output.has_concepts THEN AddConcepts(cs, output.concepts) ELSE <<>>

\* ResearchAgent.research: if 'concepts' in output: ...
AddFindings(cs, output) ==
    IF output.has_concepts THEN AddConcepts(cs, output.concepts) ELSE cs

\* all the weak-evidence gaps first, all the isolation gaps after them
GapsWeakFirst(items) ==
    [ix \in 1 .. Len(SelectSeq(items, LAMBDA it : it.value.evidence_level < WeakBelow)) |->
        [gap |-> "Weak evidence for",
         concept |-> SelectSeq(items, LAMBDA it : it.value.evidence_level < WeakBelow)[ix].key]]
    \o [ix \in 1 .. Len(SelectSeq(items, LAMBDA it : Len(it.value.connections) = 0)) |->
        [gap |-> "Isolated concept",
         concept |-> SelectSeq(items, LAMBDA it : Len(it.value.connections) = 0)[ix].key]]

RECURSIVE GapsOf(_)
\* the loop of find_knowledge_gaps over self.concepts.items()
GapsOf(items) ==
    IF items = <<>> THEN <<>>
    ELSE (IF Head(items).value.evidence_level < WeakBelow
          THEN << [gap |-> "Weak evidence for", concept |-> Head(items).key] >>
          ELSE <<>>)
         \o (IF Len(Head(items).value.connections) = 0
             THEN << [gap |-> "Isolated concept", concept |-> Head(items).key] >>
             ELSE <<>>)
         \o GapsOf(Tail(items))

find_knowledge_gaps(cs) == GapsOf(cs)

-----------------------------------------------------------------------------
(* ContentEditorInChief.create_blog_post and
   KnowledgeArchitect.create_knowledge_content, statement by statement *)

\* two statements change places: the structure is designed before the headlines
ContentStepsSwapped ==
    << [kind |-> "call", var |-> "seo_data", agent |-> "seo_researcher",
        role |-> "SEO Research Specialist", task |-> "research_keywords"],
       [kind |-> "call", var |-> "structure", agent |-> "narrative_architect",
        role |-> "Narrative Structure Designer", task |-> "design_structure"],
       [kind |-> "call", var |-> "headlines", agent |-> "headline_optimizer",
        role |-> "Headline & Hook Specialist", task |-> "generate_headlines"],
       [kind |-> "call", var |-> "data", agent |-> "data_storyteller",
        role |-> "Data Storytelling Expert", task |-> "gather_evidence"],
       [kind |-> "call", var |-> "content", agent |-> "content_creator",
        role |-> "Technical Content Expert", task |-> "write_content"],
       [kind |-> "call", var |-> "optimized", agent |-> "seo_optimizer",
        role |-> "SEO Content Optimizer",
        task |-> "Optimize content for SEO without losing readability"],
       [kind |-> "call", var |-> "edited", agent |-> "readability_editor",
        role |-> "Readability & Flow Editor",
        task |-> "Edit for flow, clarity, and engagement"],
       [kind |-> "call", var |-> "with_ctas", agent |-> "cta_specialist",
        role |-> "Call-to-Action Optimizer",
        task |-> "Add compelling CTAs throughout the content"],
       [kind |-> "call", var |-> "final", agent |-> "quality_auditor",
        role |-> "Content Quality Auditor",
        task |-> "Perform final quality check and scoring"],
       [kind |-> "register", var |-> "register_topic", agent |-> "", role |-> "", task |-> ""],
       [kind |-> "return", var |-> "return", agent |-> "", role |-> "", task |-> ""] >>

\* the topic is registered before the quality audit
ContentStepsRegisterEarly ==
    << [kind |-> "call", var |-> "seo_data", agent |-> "seo_researcher",
        role |-> "SEO Research Specialist", task |-> "research_keywords"],
       [kind |-> "call", var |-> "headlines", agent |-> "headline_optimizer",
        role |-> "Headline & Hook Specialist", task |-> "generate_headlines"],
       [kind |-> "call", var |-> "structure", agent |-> "narrative_architect",
        role |-> "Narrative Structure Designer", task |-> "design_structure"],
       [kind |-> "call", var |-> "data", agent |-> "data_storyteller",
        role |-> "Data Storytelling Expert", task |-> "gather_evidence"],
       [kind |-> "call", var |-> "content", agent |-> "content_creator",
        role |-> "Technical Content Expert", task |-> "write_content"],
       [kind |-> "call", var |-> "optimized", agent |-> "seo_optimizer",
        role |-> "SEO Content Optimizer",
        task |-> "Optimize content for SEO without losing readability"],
       [kind |-> "call", var |-> "edited", agent |-> "readability_editor",
        role |-> "Readability & Flow Editor",
        task |-> "Edit for flow, clarity, and engagement"],
       [kind |-> "call", var |-> "with_ctas", agent |-> "cta_specialist",
        role |-> "Call-to-Action Optimizer",
        task |-> "Add compelling CTAs throughout the content"],
       [kind |-> "register", var |-> "register_topic", agent |-> "", role |-> "", task |-> ""],
       [kind |-> "call", var |-> "final", agent |-> "quality_auditor",
        role |-> "Content Quality Auditor",
        task |-> "Perform final quality check and scoring"],
       [kind |-> "return", var |-> "return", agent |-> "", role |-> "", task |-> ""] >>

\* the statements of create_blog_post
ContentSteps ==
    << [kind |-> "call", var |-> "seo_data", agent |-> "seo_researcher",
        role |-> "SEO Research Specialist", task |-> "research_keywords"],
       [kind |-> "call", var |-> "headlines", agent |-> "headline_optimizer",
        role |-> "Headline & Hook Specialist", task |-> "generate_headlines"],
       [kind |-> "call", var |-> "structure", agent |-> "narrative_architect",
        role |-> "Narrative Structure Designer", task |-> "design_structure"],
       [kind |-> "call", var |-> "data", agent |-> "data_storyteller",
        role |-> "Data Storytelling Expert", task |-> "gather_evidence"],
       [kind |-> "call", var |-> "content", agent |-> "content_creator",
        role |-> "Technical Content Expert", task |-> "write_content"],
       [kind |-> "call", var |-> "optimized", agent |-> "seo_optimizer",
        role |-> "SEO Content Optimizer",
        task |-> "Optimize content for SEO without losing readability"],
       [kind |-> "call", var |-> "edited", agent |-> "readability_editor",
        role |-> "Readability & Flow Editor",
        task |-> "Edit for flow, clarity, and engagement"],
       [kind |-> "call", var |-> "with_ctas", agent |-> "cta_specialist",
        role |-> "Call-to-Action Optimizer",
        task |-> "Add compelling CTAs throughout the content"],
       [kind |-> "call", var |-> "final", agent |-> "quality_auditor",
        role |-> "Content Quality Auditor",
        task |-> "Perform final quality check and scoring"],
       [kind |-> "register", var |-> "register_topic", agent |-> "", role |-> "", task |-> ""],
       [kind |-> "return", var |-> "return", agent |-> "", role |-> "", task |-> ""] >>

\* the statements of create_knowledge_content
KnowledgeSteps ==
    << [kind |-> "call", var |-> "primary_sources", agent |-> "primary_researcher",
        role |-> "Primary Source Researcher", task |-> "find_primary_sources"],
       [kind |-> "call", var |-> "academic_research", agent |-> "academic_researcher",
        role |-> "Academic Literature Analyst", task |-> "Find academic papers and research"],
       [kind |-> "call", var |-> "data_analysis", agent |-> "data_scientist",
        role |-> "Data Analysis & Visualization Expert", task |-> "analyze_data"],
       [kind |-> "call", var |-> "industry_trends", agent |-> "industry_analyst",
        role |-> "Industry Trends & Patterns Analyst",
        task |-> "Analyze industry trends and patterns"],
       [kind |-> "call", var |-> "historical_context", agent |-> "historical_analyst",
        role |-> "Historical Context & Evolution Expert",
        task |-> "Trace historical evolution and key milestones"],
       [kind |-> "call", var |-> "contrarian_views", agent |-> "contrarian_researcher",
        role |-> "Devil's Advocate & Alternative Views",
        task |-> "Find dissenting opinions and alternative theories"],
       [kind |-> "call", var |-> "concept_map", agent |-> "concept_mapper",
        role |-> "Concept Relationship Mapper", task |-> "map_concepts"],
       [kind |-> "call", var |-> "frameworks", agent |-> "framework_builder",
        role |-> "Mental Model & Framework Designer",
        task |-> "Build mental models and frameworks"],
       [kind |-> "call", var |-> "explanations", agent |-> "complexity_translator",
        role |-> "Complex Concept Simplifier", task |-> "create_explanations"],
       [kind |-> "call", var |-> "analogies", agent |-> "analogy_master",
        role |-> "Analogy & Metaphor Creator",
        task |-> "Create powerful analogies and metaphors"],
       [kind |-> "call", var |-> "examples", agent |-> "example_generator",
        role |-> "Concrete Example Creator",
        task |-> "Generate concrete examples and case studies"],
       [kind |-> "call", var |-> "visuals", agent |-> "visual_explainer",
        role |-> "Data Visualization Designer",
        task |-> "Design visualizations and diagrams"],
       [kind |-> "call", var |-> "verification", agent |-> "fact_verificator",
        role |-> "Multi-Source Fact Checker",
        task |-> "Verify all claims and cross-check sources"],
       [kind |-> "call", var |-> "questions", agent |-> "question_anticipator",
        role |-> "Reader Question Predictor",
        task |-> "Anticipate reader questions and confusions"],
       [kind |-> "call", var |-> "synthesis", agent |-> "summary_master",
        role |-> "Multi-Level Summary Creator",
        task |-> "Create multi-level summaries and key takeaways"],
       [kind |-> "gaps", var |-> "knowledge_gaps", agent |-> "", role |-> "", task |-> ""],
       [kind |-> "return", var |-> "return", agent |-> "", role |-> "", task |-> ""] >>

Steps(v) == IF v = "content" THEN ContentSteps ELSE KnowledgeSteps

\* the local variables of a run that hold a result
ResultVars(v) ==
    { Steps(v)[ix].var : ix \in { j \in DOMAIN Steps(v) : Steps(v)[j].kind \in {"call", "gaps"} } }

\* the brief argument of the call that assigns var
CallBrief(v, var, b) ==
    IF v = "content"
    THEN IF var = "seo_data" THEN KeywordResearchBrief(b.topic) ELSE b
    ELSE IF var \in {"primary_sources", "data_analysis", "concept_map", "explanations"}
         THEN AgentKnowledgeBrief(var, b.topic, b.data_requirements)
         ELSE b

\* KnowledgeArchitect._extract_concepts: concepts.extend(output['concepts']) for each
\* output that has the key, then list(set(concepts))[:20]; a concept is a dict, and
\* set() of a list that holds a dict raises TypeError
ExtractConceptsRaises(outputs) ==
    \E ix \in DOMAIN outputs : outputs[ix].has_concepts /\ outputs[ix].concepts # <<>>

\* what is evaluated for the arguments of the call that assigns var raises
PreCallRaises(v, var, L) ==
    /\ v = "knowledge"
    /\ var = "concept_map"
    /\ ExtractConceptsRaises(<<L["primary_sources"], L["academic_research"]>>)

\* the results of earlier phases that the statement assigning var reads
Reads(v, var) ==
    IF v = "content"
    THEN CASE var = "seo_data"  -> {}
           [] var = "headlines" -> {"seo_data"}
           [] var = "structure" -> {"headlines", "seo_data"}
           [] var = "data"      -> {"structure"}
           [] var = "content"   -> {"structure", "data", "headlines"}
           [] var = "optimized" -> {"content"}
           [] var = "edited"    -> {"optimized"}
           [] var = "with_ctas" -> {"edited"}
           [] var = "final"     -> {"with_ctas"}
    ELSE CASE var \in {"primary_sources", "academic_research", "data_analysis"} -> {}
           [] var = "industry_trends"    -> {"primary_sources"}
           [] var = "historical_context" -> {"data_analysis"}
           [] var = "contrarian_views"   -> {"academic_research"}
           [] var = "concept_map"        -> {"primary_sources", "academic_research"}
           [] var \in {"frameworks", "explanations", "analogies"} -> {"concept_map"}
           [] var \in {"examples", "questions"} -> {"explanations"}
           [] var = "visuals"            -> {"data_analysis", "concept_map"}
           [] var = "verification"       -> {"primary_sources", "academic_research"}
           [] var = "synthesis"          -> {"primary_sources", "academic_research",
                                             "data_analysis", "concept_map"}

\* the context argument of the call that assigns var, as the set of its items;
\* None is the empty set (json.dumps(context or {})), and a result passed as the
\* context itself is the one item "*"
CallContext(v, var, L) ==
    IF v = "content"
    THEN CASE var = "seo_data"  -> {}
           [] var = "headlines" -> { <<"*", L["seo_data"]>> }
           [] var = "structure" -> { <<"headlines", L["headlines"]>>,
                                     <<"seo_data", L["seo_data"]>> }
           [] var = "data"      -> { <<"structure", L["structure"]>> }
           [] var = "content"   -> { <<"structure", L["structure"]>>,
                                     <<"data", L["data"]>>,
                                     <<"headlines", L["headlines"]>> }
           [] var = "optimized" -> { <<"content", L["content"]>> }
           [] var = "edited"    -> { <<"content", L["optimized"]>> }
           [] var = "with_ctas" -> { <<"content", L["edited"]>> }
           [] var = "final"     -> { <<"content", L["with_ctas"]>> }
    ELSE CASE var \in {"primary_sources", "academic_research", "data_analysis",
                       "concept_map", "explanations"} -> {}
           [] var = "industry_trends"    -> { <<"primary_sources", L["primary_sources"]>> }
           [] var = "historical_context" -> { <<"data", L["data_analysis"]>> }
           [] var = "contrarian_views"   -> { <<"mainstream", L["academic_research"]>> }
           [] var \in {"frameworks", "analogies"} -> { <<"concepts", L["concept_map"]>> }
           [] var = "examples"           -> { <<"theory", L["explanations"]>> }
           [] var = "visuals"            -> { <<"data", L["data_analysis"]>>,
                                              <<"concepts", L["concept_map"]>> }
           [] var = "verification"       -> { <<"claims", [claims |-> <<>>]>> }
           [] var = "questions"          -> { <<"content", L["explanations"]>> }
           [] var = "synthesis"          -> { <<"all_research.primary", L["primary_sources"]>>,
                                              <<"all_research.academic", L["academic_research"]>>,
                                              <<"all_research.data", L["data_analysis"]>>,
                                              <<"all_research.concepts", L["concept_map"]>> }

\* the dict keeps the topic of the brief and drops its other fields
asdictTopicOnly(b) == [topic |-> b.topic]

\* dataclasses.asdict(brief): a new dict with one key per field of the brief,
\* each holding a copy of the field's value
asdict(b) == [f \in DOMAIN b |-> b[f]]

\* the final content is taken from the phase before the quality audit
ContentRecordStale(b, L) ==
    [brief |-> asdict(b),
     seo_research |-> L["seo_data"],
     headlines |-> L["headlines"],
     structure |-> L["structure"],
     data |-> L["data"],
     final_content |-> L["with_ctas"],
     metadata |-> [agents_used |-> ContentAgents, word_count |-> b.word_count]]

\* the record also keeps the writer's draft under a key of its own
ContentRecordWithDraft(b, L) ==
    [brief |-> asdict(b),
     seo_research |-> L["seo_data"],
     headlines |-> L["headlines"],
     structure |-> L["structure"],
     data |-> L["data"],
     content |-> L["content"],
     final_content |-> L["final"],
     metadata |-> [agents_used |-> ContentAgents, word_count |-> b.word_count]]

\* the dict create_blog_post returns
ContentRecord(b, L) ==
    [brief |-> asdict(b),
     seo_research |-> L["seo_data"],
     headlines |-> L["headlines"],
     structure |-> L["structure"],
     data |-> L["data"],
     final_content |-> L["final"],
     metadata |-> [agents_used |-> ContentAgents, word_count |-> b.word_count]]

\* the dict create_knowledge_content returns
KnowledgeRecord(b, L) ==
    [brief |-> asdict(b),
     primary_sources |-> L["primary_sources"],
     academic_research |-> L["academic_research"],
     data_analysis |-> L["data_analysis"],
     industry_trends |-> L["industry_trends"],
     historical_context |-> L["historical_context"],
     contrarian_views |-> L["contrarian_views"],
     concept_map |-> L["concept_map"],
     frameworks |-> L["frameworks"],
     explanations |-> L["explanations"],
     analogies |-> L["analogies"],
     examples |-> L["examples"],
     visuals |-> L["visuals"],
     verification |-> L["verification"],
     anticipated_questions |-> L["questions"],
     synthesis |-> L["synthesis"],
     knowledge_gaps |-> L["knowledge_gaps"],
     metadata |-> [agents_used |-> KnowledgeAgents,
                   information_density |-> b.information_density,
                   depth_level |-> b.depth_level]]

NoRecord == [none |-> TRUE]

\* no call of find_knowledge_gaps has been made
NoKRet == [op |-> "none", n |-> 0, value |-> <<>>]

NoError == [exc |-> "none"]

-----------------------------------------------------------------------------
(* The graph on its own: any sequence of registrations and queries *)

NoRet == [op |-> "none", topic |-> 0, value |-> <<>>, raised |-> "none"]

GraphInit ==
    /\ topics_covered = <<>>
    /\ keyword_map = <<>>
    /\ registrations = <<>>
    /\ ret = NoRet

\* no orchestrator has been called
NoRun ==
    /\ concepts = <<>>
    /\ variant = "none"
    /\ brief = [topic |-> 0]
    /\ pc = "idle"
    /\ step = 0
    /\ inflight = {}
    /\ locals = [x \in {} |-> Unset]
    /\ calls = <<>>
    /\ started = <<>>
    /\ record = NoRecord
    /\ error = NoError
    /\ failedAt = "none"
    /\ saved = <<>>
    /\ rich = 0
    /\ relationships = <<>>
    /\ kret = NoKRet
    /\ kcalls = <<>>
    /\ returns = <<>>
    /\ thrown = NoError
    /\ completed_topics = {}
    /\ tasks = <<>>
    /\ subtopics = <<>>
    /\ posts = <<>>
    /\ lines = <<>>
    /\ i = 0
    /\ in_section = FALSE
    /\ section_content = <<>>
    /\ bullets = <<>>
    /\ html_parts = <<>>
    /\ visits = <<>>
    /\ where = "none"

\* a new graph and no run
Init == GraphInit /\ NoRun

\* the distinct topics named by a sequence of calls
TopicsOf(regs) == { regs[ix].topic : ix \in DOMAIN regs }

\* The explored call sequences: registrations of one of two regions, followed by
\* at most one query.  A query leaves the graph as it is, so the graphs reached
\* and the queries made on each of them are those of arbitrary interleavings.
InBounds(regs) ==
    LET n == Cardinality(TopicsOf(regs))
    IN  \/ /\ Len(regs) <= MaxCalls
           /\ \A ix \in DOMAIN regs : regs[ix].keywords \in KwLists
        \/ /\ n <= WideTopics
           /\ Len(regs) = n
           /\ \A ix \in DOMAIN regs : regs[ix].keywords \in WideKwLists

RegisterTopic ==
    \E topic \in 1 .. Len(topics_covered) + 1,
       keywords \in KwLists \cup WideKwLists, performance \in Performances :
        /\ ret.op # "get_related_content"
        /\ InBounds(Append(registrations, [topic |-> topic, keywords |-> keywords]))
        /\ register_topic(topic, keywords, performance)
        /\ registrations' = Append(registrations, [topic |-> topic, keywords |-> keywords])
        /\ ret' = [op |-> "register_topic", topic |-> topic,
                   value |-> <<>>, raised |-> "none"]
        /\ UNCHANGED <<pvars, kvars, hvars, tasks, svars, cvars>>

GetRelatedContent ==
    \E topic \in 1 .. Len(topics_covered) + 1 :
        /\ ret.op # "get_related_content"
        /\ LET r == get_related_content(topic)
           IN  ret' = [op |-> "get_related_content", topic |-> topic,
                       value |-> r.value, raised |-> r.raised]
        /\ UNCHANGED <<topics_covered, keyword_map, registrations>>
        /\ UNCHANGED <<pvars, kvars, hvars, tasks, svars, cvars>>

GraphNext == RegisterTopic \/ GetRelatedContent

SpecGraph == Init /\ [][GraphNext]_vars

-----------------------------------------------------------------------------
(* One run of an orchestrator under its driver: main's loop body in
   generate_content.py, the demo scripts for the knowledge pipeline *)

\* the call of the statement before is not awaited
NotAwaited(flying) == TRUE

\* the awaited call of the statement before has come back
Awaited(flying) == flying = {}

\* the driver catches the failure of the run and saves what it has
CanSaveFailed(p) == p \in {"returned", "failed"}

\* save_content follows the awaited run in the same branch of main
CanSave(p) == p = "returned"

\* the orchestrator catches the exception and raises one of its own
RaisedWrapped(e) == [type |-> "RuntimeError", message |-> e.message]

\* what reaches the caller when the collaborator raises e: nothing on the way
\* catches it or adds to it
Raised(e) == e

Step == Steps(variant)[step]

\* a driver builds a brief and a new orchestrator, with new graphs, and calls it
StartRun ==
    \E v \in {"content", "knowledge"} :
      \E b \in (IF v = "content" THEN ContentBriefs ELSE KnowledgeBriefs) :
        /\ pc \in {"idle", "saved"}
        /\ variant' = v
        /\ brief' = b
        /\ pc' = "running"
        /\ step' = 1
        /\ inflight' = {}
        /\ locals' = [x \in ResultVars(v) |-> Unset]
        /\ calls' = <<>>
        /\ started' = <<>>
        /\ record' = NoRecord
        /\ error' = NoError
        /\ failedAt' = "none"
        /\ saved' = <<>>
        /\ rich' = 0
        /\ concepts' = <<>>
        /\ topics_covered' = <<>>
        /\ keyword_map' = <<>>
        /\ registrations' = <<>>
        /\ ret' = NoRet
        /\ relationships' = <<>>
        /\ kret' = NoKRet
        /\ kcalls' = <<>>
        /\ returns' = <<>>
        /\ thrown' = NoError
        /\ UNCHANGED <<completed_topics, tasks, svars, cvars>>

\* x = await agent.method(...): the arguments are evaluated and the call is made
CallStart ==
    /\ pc = "running"
    /\ step \in DOMAIN Steps(variant)
    /\ Step.kind = "call"
    /\ Awaited(inflight)
    /\ ~PreCallRaises(variant, Step.var, locals)
    /\ calls' = Append(calls, [var |-> Step.var, agent |-> Step.agent, role |-> Step.role,
                               task |-> Step.task,
                               brief |-> CallBrief(variant, Step.var, brief),
                               context |-> CallContext(variant, Step.var, locals)])
    /\ started' = Append(started, Step.var)
    /\ inflight' = inflight \cup {step}
    /\ step' = step + 1
    /\ UNCHANGED <<concepts, variant, brief, pc, locals, record, error, failedAt, saved, rich>>
    /\ UNCHANGED <<gvars, kvars, hvars, tasks, svars, cvars>>

\* evaluating the arguments raises: the call is not made and the run ends
PreCallRaise ==
    /\ pc = "running"
    /\ step \in DOMAIN Steps(variant)
    /\ Step.kind = "call"
    /\ Awaited(inflight)
    /\ PreCallRaises(variant, Step.var, locals)
    /\ pc' = "failed"
    /\ error' = Raised([type |-> "TypeError", message |-> "unhashable type: 'dict'"])
    /\ failedAt' = Step.var
    /\ UNCHANGED <<concepts, variant, brief, step, inflight, locals, calls, started,
                   record, saved, rich>>
    /\ UNCHANGED <<gvars, kvars, hvars, tasks, svars, cvars>>

\* the collaborator hands back an output: research adds its concepts to the
\* graph, and the output is assigned to the statement's variable
CallReturn ==
    \E k \in inflight :
      \E output \in Outputs(Steps(variant)[k].role) :
        /\ pc = "running"
        /\ output # PlainOutput(Steps(variant)[k].role) => rich < MaxRich
        /\ rich' = IF output # PlainOutput(Steps(variant)[k].role) THEN rich + 1 ELSE rich
        /\ concepts' = IF variant = "knowledge" THEN AddFindings(concepts, output)
                                                ELSE concepts
        /\ locals' = [locals EXCEPT ![Steps(variant)[k].var] = output]
        /\ inflight' = inflight \ {k}
        /\ kcalls' = IF variant = "knowledge" THEN kcalls \o ConceptCalls(output)
                                               ELSE kcalls
        /\ UNCHANGED <<variant, brief, pc, step, calls, started, record, error, failedAt, saved>>
        /\ returns' = Append(returns, [var |-> Steps(variant)[k].var, output |-> output])
        /\ UNCHANGED <<gvars, relationships, kret, thrown, completed_topics, tasks, svars, cvars>>

\* the collaborator raises: the exception leaves generate/research, the
\* orchestrator's method and the driver
CallFail ==
    \E k \in inflight :
      \E e \in CollaboratorErrors :
        /\ pc = "running"
        /\ pc' = "failed"
        /\ error' = Raised(e)
        /\ failedAt' = Steps(variant)[k].var
        /\ inflight' = inflight \ {k}
        /\ thrown' = e
        /\ UNCHANGED <<concepts, variant, brief, step, locals, calls, started, record,
                       saved, rich>>
        /\ UNCHANGED <<gvars, kvars, returns, completed_topics, tasks, svars, cvars>>

\* self.knowledge_graph.register_topic(brief.topic, [primary] + secondary, {...})
RegisterStep ==
    /\ pc = "running"
    /\ step \in DOMAIN Steps(variant)
    /\ Step.kind = "register"
    /\ Awaited(inflight)
    /\ \E performance \in Performances :
         register_topic(brief.topic,
                        <<brief.primary_keyword>> \o brief.secondary_keywords, performance)
    /\ registrations' = Append(registrations,
                               [topic |-> brief.topic,
                                keywords |-> <<brief.primary_keyword>>
                                             \o brief.secondary_keywords])
    /\ ret' = [op |-> "register_topic", topic |-> brief.topic,
               value |-> <<>>, raised |-> "none"]
    /\ started' = Append(started, Step.var)
    /\ step' = step + 1
    /\ UNCHANGED <<concepts, variant, brief, pc, inflight, locals, calls, record, error,
                   failedAt, saved, rich>>
    /\ UNCHANGED <<kvars, hvars, tasks, svars, cvars>>

\* knowledge_gaps = self.knowledge_graph.find_knowledge_gaps()
GapStep ==
    /\ pc = "running"
    /\ step \in DOMAIN Steps(variant)
    /\ Step.kind = "gaps"
    /\ Awaited(inflight)
    /\ locals' = [locals EXCEPT ![Step.var] = [gaps |-> find_knowledge_gaps(concepts)]]
    /\ started' = Append(started, Step.var)
    /\ step' = step + 1
    /\ UNCHANGED <<concepts, variant, brief, pc, inflight, calls, record, error,
                   failedAt, saved, rich>>
    /\ UNCHANGED <<gvars, kvars, hvars, tasks, svars, cvars>>

\* return {...}
ReturnRecord ==
    /\ pc = "running"
    /\ step \in DOMAIN Steps(variant)
    /\ Step.kind = "return"
    /\ Awaited(inflight)
    /\ record' = IF variant = "content" THEN ContentRecord(brief, locals)
                                        ELSE KnowledgeRecord(brief, locals)
    /\ started' = Append(started, Step.var)
    /\ pc' = "returned"
    /\ step' = step + 1
    /\ completed_topics' = completed_topics \cup { registrations[ix].topic :
                                                     ix \in DOMAIN registrations }
    /\ UNCHANGED <<concepts, variant, brief, inflight, locals, calls, error,
                   failedAt, saved, rich>>
    /\ UNCHANGED <<gvars, kvars, returns, thrown, tasks, svars, cvars>>

\* save_content(content, name), json.dump(content, f) in the demo
SaveContent ==
    /\ CanSave(pc)
    /\ saved' = Append(saved, record)
    /\ pc' = "saved"
    /\ UNCHANGED <<concepts, variant, brief, step, inflight, locals, calls, started,
                   record, error, failedAt, rich>>
    /\ UNCHANGED <<gvars, kvars, hvars, tasks, svars, cvars>>

Next ==
    \/ StartRun
    \/ CallStart
    \/ PreCallRaise
    \/ CallReturn
    \/ CallFail
    \/ RegisterStep
    \/ GapStep
    \/ ReturnRecord
    \/ SaveContent

Spec == Init /\ [][Next]_vars

-----------------------------------------------------------------------------
(* The KnowledgeGraph on its own: any sequence of add_concept and
   add_relationship calls, followed by calls of find_knowledge_gaps *)

\* the add_concept and add_relationship calls of a sequence
MaxKGCalls == 3

\* the find_knowledge_gaps calls that follow them
MaxFinds == 2

ConceptNames == { "c1", "c2" }

ConceptDefinitions == { "d1" }

\* evidence_level: float, in tenths; nothing restricts what a caller passes
EvidenceLevels == { 5, 7, 9, 12 }

RelationshipTypes == { "causes" }

\* self.relationships.append({'from': concept1, 'to': concept2, 'type': relationship_type})
add_relationship(rs, concept1, concept2, relationship_type) ==
    Append(rs, [from |-> concept1, to |-> concept2, type |-> relationship_type])

\* the list of gaps is kept from one call to the next
KeptGaps(previous) == previous

\* gaps = []
FreshGaps(previous) == <<>>

AddConcept ==
    \E concept \in ConceptNames, definition \in ConceptDefinitions,
       evidence_level \in EvidenceLevels :
        /\ kret.op = "none"
        /\ Len(kcalls) < MaxKGCalls
        /\ concepts' = add_concept(concepts, concept, definition, evidence_level)
        /\ kcalls' = Append(kcalls, [op |-> "add_concept", concept |-> concept,
                                     definition |-> definition,
                                     evidence_level |-> evidence_level])
        /\ UNCHANGED <<relationships, kret>>
        /\ UNCHANGED <<gvars, variant, brief, pc, step, inflight, locals, calls, started,
                       record, error, failedAt, saved, rich, hvars, tasks, svars, cvars>>

AddRelationship ==
    \E concept1, concept2 \in ConceptNames, relationship_type \in RelationshipTypes :
        /\ kret.op = "none"
        /\ Len(kcalls) < MaxKGCalls
        /\ relationships' = add_relationship(relationships, concept1, concept2,
                                             relationship_type)
        /\ kcalls' = Append(kcalls, [op |-> "add_relationship", from |-> concept1,
                                     to |-> concept2, type |-> relationship_type])
        /\ UNCHANGED <<concepts, kret>>
        /\ UNCHANGED <<gvars, variant, brief, pc, step, inflight, locals, calls, started,
                       record, error, failedAt, saved, rich, hvars, tasks, svars, cvars>>

FindKnowledgeGaps ==
    /\ kret.n < MaxFinds
    /\ kret' = [op |-> "find_knowledge_gaps", n |-> kret.n + 1,
                value |-> FreshGaps(kret.value) \o find_knowledge_gaps(concepts)]
    /\ UNCHANGED <<concepts, relationships, kcalls>>
    /\ UNCHANGED <<gvars, variant, brief, pc, step, inflight, locals, calls, started,
                   record, error, failedAt, saved, rich, hvars, tasks, svars, cvars>>

KGNext == AddConcept \/ AddRelationship \/ FindKnowledgeGaps

SpecKG == Init /\ [][KGNext]_vars

-----------------------------------------------------------------------------
(* Two runs of create_blog_post on one ContentEditorInChief, as two tasks of
   one event loop: a task gives way to the other only where it awaits *)

TaskIds == { 1, 2 }

\* a task that has been created and has not run yet
NewTask(b) ==
    [brief |-> b, step |-> 1, awaiting |-> FALSE, status |-> "running",
     locals |-> [x \in ResultVars("content") |-> Unset]]

TaskStep(t) == ContentSteps[tasks[t].step]

\* the statement a running task is at is of this kind, and the task is not
\* waiting for the collaborator
TaskAt(t, kind) ==
    /\ tasks # <<>>
    /\ tasks[t].status = "running"
    /\ ~tasks[t].awaiting
    /\ TaskStep(t).kind = kind

\* both tasks are created on a new orchestrator
StartTasks ==
    \E b1, b2 \in ContentBriefs :
        /\ tasks = <<>>
        /\ pc = "idle"
        /\ tasks' = << NewTask(b1), NewTask(b2) >>
        /\ UNCHANGED <<gvars, pvars, kvars, hvars, svars, cvars>>

\* the task reaches the await of its next call
TaskCallStart ==
    \E t \in TaskIds :
        /\ TaskAt(t, "call")
        /\ tasks' = [tasks EXCEPT ![t].awaiting = TRUE]
        /\ UNCHANGED <<gvars, pvars, kvars, hvars, svars, cvars>>

\* the collaborator hands back the output and the task goes on
TaskCallReturn ==
    \E t \in TaskIds :
        /\ tasks # <<>>
        /\ tasks[t].status = "running"
        /\ tasks[t].awaiting
        /\ tasks' = [tasks EXCEPT ![t].awaiting = FALSE,
                                  ![t].locals[TaskStep(t).var] = PlainOutput(TaskStep(t).role),
                                  ![t].step = @ + 1]
        /\ UNCHANGED <<gvars, pvars, kvars, hvars, svars, cvars>>

\* the collaborator raises and the task ends
TaskCallFail ==
    \E t \in TaskIds :
        /\ tasks # <<>>
        /\ tasks[t].status = "running"
        /\ tasks[t].awaiting
        /\ tasks' = [tasks EXCEPT ![t].awaiting = FALSE, ![t].status = "failed"]
        /\ UNCHANGED <<gvars, pvars, kvars, hvars, svars, cvars>>

\* register_topic has no await: the task runs it from start to end
TaskRegister ==
    \E t \in TaskIds :
        /\ TaskAt(t, "register")
        /\ \E performance \in Performances :
             register_topic(tasks[t].brief.topic,
                            <<tasks[t].brief.primary_keyword>>
                            \o tasks[t].brief.secondary_keywords, performance)
        /\ registrations' = Append(registrations,
                                   [topic |-> tasks[t].brief.topic,
                                    keywords |-> <<tasks[t].brief.primary_keyword>>
                                                 \o tasks[t].brief.secondary_keywords])
        /\ ret' = [op |-> "register_topic", topic |-> tasks[t].brief.topic,
                   value |-> <<>>, raised |-> "none"]
        /\ tasks' = [tasks EXCEPT ![t].step = @ + 1]
        /\ UNCHANGED <<pvars, kvars, hvars, svars, cvars>>

TaskReturn ==
    \E t \in TaskIds :
        /\ TaskAt(t, "return")
        /\ tasks' = [tasks EXCEPT ![t].status = "returned"]
        /\ UNCHANGED <<gvars, pvars, kvars, hvars, svars, cvars>>

SharedNext ==
    \/ StartTasks
    \/ TaskCallStart
    \/ TaskCallReturn
    \/ TaskCallFail
    \/ TaskRegister
    \/ TaskReturn

SpecShared == Init /\ [][SharedNext]_vars

-----------------------------------------------------------------------------
(* create_knowledge_content with the two statements of a phase started
   together: the second research call of a phase is made while the first is
   with the collaborator, when it reads no result of it, and the two hand back
   their outputs in either order *)

\* the number of outputs with concepts in such a run
MaxSiblingRich == 2

\* statement s may start: nothing is awaited, or only the first statement of
\* its phase is, and s reads no result of it
SiblingsAwaited(flying, s) ==
    \/ flying = {}
    \/ /\ flying = {s - 1}
       /\ s % 2 = 0
       /\ KnowledgeSteps[s].kind = "call"
       /\ KnowledgeSteps[s - 1].var \notin Reads("knowledge", KnowledgeSteps[s].var)

\* a driver builds a brief and a new KnowledgeArchitect and calls it
StartSiblingRun ==
    \E b \in KnowledgeBriefs :
        /\ pc = "idle"
        /\ variant' = "knowledge"
        /\ brief' = b
        /\ pc' = "running"
        /\ step' = 1
        /\ locals' = [x \in ResultVars("knowledge") |-> Unset]
        /\ UNCHANGED <<inflight, calls, started, record, error, failedAt, saved, rich,
                       concepts>>
        /\ UNCHANGED <<gvars, kvars, hvars, tasks, svars, cvars>>

\* the call of a statement is made, also next to its sibling's
SiblingCallStart ==
    /\ pc = "running"
    /\ step \in DOMAIN Steps(variant)
    /\ Step.kind = "call"
    /\ SiblingsAwaited(inflight, step)
    /\ ~PreCallRaises(variant, Step.var, locals)
    /\ calls' = Append(calls, [var |-> Step.var, agent |-> Step.agent, role |-> Step.role,
                               task |-> Step.task,
                               brief |-> CallBrief(variant, Step.var, brief),
                               context |-> CallContext(variant, Step.var, locals)])
    /\ started' = Append(started, Step.var)
    /\ inflight' = inflight \cup {step}
    /\ step' = step + 1
    /\ UNCHANGED <<concepts, variant, brief, pc, locals, record, error, failedAt, saved, rich>>
    /\ UNCHANGED <<gvars, kvars, hvars, tasks, svars, cvars>>

\* the outputs handed back in such a run: the plain one and those with concepts
SiblingOutputs(role) == { o \in Outputs(role) : o = PlainOutput(role) \/ o.has_concepts }

\* the collaborator hands back the output of one of the calls in flight
SiblingCallReturn ==
    \E k \in inflight :
      \E output \in SiblingOutputs(Steps(variant)[k].role) :
        /\ pc = "running"
        /\ output # PlainOutput(Steps(variant)[k].role) => rich < MaxSiblingRich
        /\ rich' = IF output # PlainOutput(Steps(variant)[k].role) THEN rich + 1 ELSE rich
        /\ concepts' = AddFindings(concepts, output)
        /\ locals' = [locals EXCEPT ![Steps(variant)[k].var] = output]
        /\ inflight' = inflight \ {k}
        /\ kcalls' = kcalls \o ConceptCalls(output)
        /\ UNCHANGED <<variant, brief, pc, step, calls, started, record, error, failedAt, saved>>
        /\ UNCHANGED <<gvars, relationships, kret, hvars, tasks, svars, cvars>>

SiblingNext ==
    \/ StartSiblingRun
    \/ SiblingCallStart
    \/ SiblingCallReturn
    \/ PreCallRaise
    \/ GapStep
    \/ ReturnRecord

SpecSiblings == Init /\ [][SiblingNext]_vars

-----------------------------------------------------------------------------
(* ContentEditorInChief.create_content_series: one create_blog_post per
   subtopic, all on the editor's graph.  A subtopic is the sequence of its
   characters. *)

\* the longest list of subtopics
MaxSeries == 3

\* the subtopics a caller may name
Subtopics == { <<"A", " ", "B">>, <<"a", "-", "b">>, <<"c">> }

RECURSIVE ListsUpTo(_, _)
\* the lists of at most n elements of S
ListsUpTo(S, n) ==
    IF n = 0 THEN { <<>> }
    ELSE LET shorter == ListsUpTo(S, n - 1)
         IN  shorter \cup { Append(l, x) : l \in shorter, x \in S }

\* str.lower(), character by character
lower(s) ==
    [ix \in DOMAIN s |-> CASE s[ix] = "A" -> "a"
                          [] s[ix] = "B" -> "b"
                          [] OTHER      -> s[ix]]

\* str.replace(old, new) for one-character old and new
replace(s, old, new) == [ix \in DOMAIN s |-> IF s[ix] = old THEN new ELSE s[ix]]

\* the brief create_content_series builds for a subtopic
SeriesBrief(subtopic) ==
    [topic |-> subtopic,
     primary_keyword |-> replace(lower(subtopic), " ", "-"),
     secondary_keywords |-> <<>>,
     content_type |-> "thought-leadership",
     word_count |-> 2500]

\* the links are not stored in the post
WithoutInternalLinks(post, related) == post

\* post['internal_links'] = related
WithInternalLinks(post, related) ==
    [f \in DOMAIN post \cup {"internal_links"} |->
        IF f = "internal_links" THEN related ELSE post[f]]

\* create_content_series(topic_cluster, subtopics) is called on a new editor
StartSeries ==
    \E list \in ListsUpTo(Subtopics, MaxSeries) :
        /\ pc = "idle"
        /\ subtopics' = list
        /\ posts' = <<>>
        /\ pc' = "series"
        /\ UNCHANGED <<concepts, variant, brief, step, inflight, locals, calls, started,
                       record, error, failedAt, saved, rich>>
        /\ UNCHANGED <<gvars, kvars, hvars, tasks, cvars>>

\* for subtopic in subtopics: brief = ContentBrief(...);
\* post = await self.create_blog_post(brief), up to its first statement
StartPost ==
    /\ pc = "series"
    /\ Len(posts) < Len(subtopics)
    /\ variant' = "content"
    /\ brief' = SeriesBrief(subtopics[Len(posts) + 1])
    /\ pc' = "running"
    /\ step' = 1
    /\ inflight' = {}
    /\ locals' = [x \in ResultVars("content") |-> Unset]
    /\ calls' = <<>>
    /\ started' = <<>>
    /\ record' = NoRecord
    /\ returns' = <<>>
    /\ UNCHANGED <<concepts, error, failedAt, saved, rich, thrown, completed_topics>>
    /\ UNCHANGED <<gvars, kvars, tasks, subtopics, posts, cvars>>

\* the collaborator hands back an output: the plain one, the results of the
\* phases having no part in the registration or in the links
SeriesCallReturn ==
    \E k \in inflight :
        /\ pc = "running"
        /\ locals' = [locals EXCEPT ![Steps(variant)[k].var] =
                                        PlainOutput(Steps(variant)[k].role)]
        /\ inflight' = inflight \ {k}
        /\ returns' = Append(returns, [var |-> Steps(variant)[k].var,
                                       output |-> PlainOutput(Steps(variant)[k].role)])
        /\ UNCHANGED <<concepts, variant, brief, pc, step, calls, started, record, error,
                       failedAt, saved, rich>>
        /\ UNCHANGED <<gvars, kvars, thrown, completed_topics, tasks, svars, cvars>>

\* posts.append(post); if len(posts) > 1: post['internal_links'] =
\* self.knowledge_graph.get_related_content(subtopic)
AppendPost ==
    /\ pc = "returned"
    /\ subtopics # <<>>
    /\ LET r == get_related_content(subtopics[Len(posts) + 1])
       IN  IF Len(posts) + 1 > 1
           THEN IF r.raised = "none"
                THEN /\ posts' = Append(posts, WithInternalLinks(record, r.value))
                     /\ pc' = "series"
                     /\ UNCHANGED <<error, failedAt>>
                ELSE /\ pc' = "failed"
                     /\ error' = Raised([type |-> r.raised, message |-> ""])
                     /\ failedAt' = "internal_links"
                     /\ UNCHANGED posts
           ELSE /\ posts' = Append(posts, record)
                /\ pc' = "series"
                /\ UNCHANGED <<error, failedAt>>
    /\ UNCHANGED <<concepts, variant, brief, step, inflight, locals, calls, started,
                   record, saved, rich>>
    /\ UNCHANGED <<gvars, kvars, hvars, tasks, subtopics, cvars>>

\* return posts
ReturnPosts ==
    /\ pc = "series"
    /\ Len(posts) = Len(subtopics)
    /\ pc' = "series_done"
    /\ UNCHANGED <<concepts, variant, brief, step, inflight, locals, calls, started,
                   record, error, failedAt, saved, rich>>
    /\ UNCHANGED <<gvars, kvars, hvars, tasks, svars, cvars>>

SeriesNext ==
    \/ StartSeries
    \/ StartPost
    \/ CallStart
    \/ SeriesCallReturn
    \/ CallFail
    \/ RegisterStep
    \/ ReturnRecord
    \/ AppendPost
    \/ ReturnPosts

SpecSeries == Init /\ [][SeriesNext]_vars

-----------------------------------------------------------------------------
(* scripts/convert-to-astro.py, markdown_to_astro_html: the loop over the lines
   of the text.  A line is the sequence of its characters; i counts from 0 as
   in the source, so lines[i] of the source is lines[i + 1] here. *)

\* the longest text, in lines
MaxLines == 3

\* the lines a text may hold
Lines ==
    { <<"*", "*", "B", "y">>,
      <<"#", "#", " ", "t">>,
      <<"#", "#", "#", " ", "t">>,
      <<"#", "#", "#", "#", " ", "t">>,
      <<"-", " ", "b">>,
      <<" ", "*", " ", "b">>,
      <<"-", " ">>,
      <<"p">>,
      <<>>,
      <<"#", "t">>,
      <<"-", "-", "-">> }

\* markdown_text.split('\n'): one line at least
Texts == ListsUpTo(Lines, MaxLines) \ { <<>> }

\* str.startswith(prefix)
startswith(s, prefix) ==
    Len(s) >= Len(prefix) /\ SubSeq(s, 1, Len(prefix)) = prefix

RECURSIVE lstrip(_)
lstrip(s) == IF s # <<>> /\ Head(s) = " " THEN lstrip(Tail(s)) ELSE s

RECURSIVE rstrip(_)
rstrip(s) == IF s # <<>> /\ s[Len(s)] = " " THEN rstrip(SubSeq(s, 1, Len(s) - 1)) ELSE s

\* str.strip()
strip(s) == rstrip(lstrip(s))

\* line.startswith('**By') or line.startswith('*Former') or
\* line.startswith('Reading time')
IsMetadata(line) ==
    \/ startswith(line, <<"*", "*", "B", "y">>)
    \/ startswith(line, <<"*", "F", "o", "r", "m", "e", "r">>)
    \/ startswith(line, <<"R", "e", "a", "d", "i", "n", "g", " ", "t", "i", "m", "e">>)

\* line.strip().startswith('- ') or line.strip().startswith('* ')
IsBullet(line) ==
    startswith(strip(line), <<"-", " ">>) \/ startswith(strip(line), <<"*", " ">>)

\* the test of the inner loop is made on the line as it is
MoreBulletsUnstripped(ls, n) ==
    n < Len(ls) /\ (\/ startswith(ls[n + 1], <<"-", " ">>)
                     \/ startswith(ls[n + 1], <<"*", " ">>))

\* i < len(lines) and (lines[i].strip().startswith('- ') or
\* lines[i].strip().startswith('* '))
MoreBullets(ls, n) ==
    n < Len(ls) /\ IsBullet(ls[n + 1])

\* line.strip() and not line.startswith('#') and not line.startswith('---')
IsParagraph(line) ==
    /\ strip(line) # <<>>
    /\ ~startswith(line, <<"#">>)
    /\ ~startswith(line, <<"-", "-", "-">>)

\* process_section(content): none of the titles of Lines is one of the named
\* sections, so the content goes into the generic section
process_section(content) == [container |-> "section", content |-> content]

\* i += 1, with the line counted as gone through
Advance ==
    /\ i' = i + 1
    /\ visits' = [visits EXCEPT ![i + 1] = @ + 1]

\* markdown_to_astro_html(markdown_text) is called
ConvertStart ==
    /\ where = "none"
    /\ pc = "idle"
    /\ \E text \in Texts :
           /\ lines' = text
           /\ visits' = [k \in DOMAIN text |-> 0]
    /\ i' = 0
    /\ in_section' = FALSE
    /\ section_content' = <<>>
    /\ bullets' = <<>>
    /\ html_parts' = <<>>
    /\ where' = "loop"
    /\ UNCHANGED <<gvars, pvars, kvars, hvars, tasks, svars>>

\* one pass through the body of while i < len(lines), up to the inner loop
\* of the bullet branch
Iterate ==
    /\ where = "loop"
    /\ i < Len(lines)
    /\ LET line == lines[i + 1]
       IN  IF i < 10 /\ IsMetadata(line)
           THEN /\ Advance
                /\ UNCHANGED <<in_section, section_content, bullets, html_parts, where>>
           ELSE IF startswith(line, <<"#", "#", " ">>)
           THEN /\ html_parts' = IF section_content # <<>>
                                 THEN Append(html_parts, process_section(section_content))
                                 ELSE html_parts
                /\ section_content' = << [tag |-> "h2", line |-> i] >>
                /\ in_section' = TRUE
                /\ Advance
                /\ UNCHANGED <<bullets, where>>
           ELSE IF startswith(line, <<"#", "#", "#", " ">>)
           THEN /\ section_content' = Append(section_content, [tag |-> "h3", line |-> i])
                /\ Advance
                /\ UNCHANGED <<in_section, bullets, html_parts, where>>
           ELSE IF startswith(line, <<"#", "#", "#", "#", " ">>)
           THEN /\ section_content' = Append(section_content, [tag |-> "h4", line |-> i])
                /\ Advance
                /\ UNCHANGED <<in_section, bullets, html_parts, where>>
           ELSE IF IsBullet(line)
           THEN /\ bullets' = <<>>
                /\ where' = "bullets"
                /\ UNCHANGED <<i, visits, in_section, section_content, html_parts>>
           ELSE IF IsParagraph(line)
           THEN /\ section_content' = Append(section_content, [tag |-> "p", line |-> i])
                /\ Advance
                /\ UNCHANGED <<in_section, bullets, html_parts, where>>
           ELSE /\ Advance
                /\ UNCHANGED <<in_section, section_content, bullets, html_parts, where>>
    /\ UNCHANGED lines
    /\ UNCHANGED <<gvars, pvars, kvars, hvars, tasks, svars>>

\* the inner loop of the bullet branch: a pass through its body, or its end,
\* the append of the list and continue
BulletStep ==
    /\ where = "bullets"
    /\ IF MoreBullets(lines, i)
       THEN /\ bullets' = Append(bullets, [tag |-> "li", line |-> i])
            /\ Advance
            /\ UNCHANGED <<section_content, where>>
       ELSE /\ section_content' = Append(section_content,
                                         [tag |-> "ul", line |-> i, items |-> bullets])
            /\ where' = "loop"
            /\ UNCHANGED <<i, visits, bullets>>
    /\ UNCHANGED <<lines, in_section, html_parts>>
    /\ UNCHANGED <<gvars, pvars, kvars, hvars, tasks, svars>>

\* the loop has ended: the final section is added and the parts are returned
ConvertReturn ==
    /\ where = "loop"
    /\ ~(i < Len(lines))
    /\ html_parts' = IF section_content # <<>>
                     THEN Append(html_parts, process_section(section_content))
                     ELSE html_parts
    /\ where' = "done"
    /\ UNCHANGED <<lines, i, in_section, section_content, bullets, visits>>
    /\ UNCHANGED <<gvars, pvars, kvars, hvars, tasks, svars>>

ConvertNext ==
    \/ ConvertStart
    \/ Iterate
    \/ BulletStep
    \/ ConvertReturn

SpecConvert == Init /\ [][ConvertNext]_vars

\* the interpreter keeps running the function it has entered
SpecConvertFair == SpecConvert /\ WF_vars(Iterate \/ BulletStep \/ ConvertReturn)

-----------------------------------------------------------------------------
(* Claims about the KnowledgeGraph *)

\* the places of the add_concept calls that named concept c
AddsOf(c) == { ix \in DOMAIN kcalls : kcalls[ix].op = "add_concept" /\ kcalls[ix].concept = c }

\* the concepts added so far
Added == { c \in ConceptNames : AddsOf(c) # {} }

FirstAdded(c) == CHOOSE ix \in AddsOf(c) : \A j \in AddsOf(c) : ix <= j

\* the evidence level of the latest add_concept call that named c
LatestEvidence(c) ==
    kcalls[CHOOSE ix \in AddsOf(c) : \A j \in AddsOf(c) : j <= ix].evidence_level

\* c takes part in a relationship
InRelationship(c) ==
    \E ix \in DOMAIN kcalls :
        /\ kcalls[ix].op = "add_relationship"
        /\ c \in { kcalls[ix].from, kcalls[ix].to }

Found == kret.op = "find_knowledge_gaps"

\* the concepts that have an entry of this kind in the gaps returned
GapConcepts(kind) == { kret.value[ix].concept : ix \in { j \in DOMAIN kret.value :
                                                        kret.value[j].gap = kind } }

\* C11: a call of find_knowledge_gaps leaves the concepts and the relationships
\* of the graph as they are, and a call that follows another with no add_concept
\* or add_relationship in between returns the same sequence.
C11_FindGapsIdempotentReadOnly ==
    [][ (kret'.op = "find_knowledge_gaps" /\ kret'.n = kret.n + 1)
        => /\ concepts' = concepts
           /\ relationships' = relationships
           /\ (kret.op = "find_knowledge_gaps" => kret'.value = kret.value) ]_vars

\* a second call in a row has returned, and the gaps are not empty
C11_Witness ==
    /\ Found
    /\ kret.n = 2
    /\ Len(kret.value) >= 2

\* C12 as stated: in the sequence returned every weak-evidence gap comes before
\* every isolation gap, and each of the two groups is in concept-insertion order.
C12_WeakGapsBeforeIsolationGaps ==
    Found =>
        \A ix, j \in DOMAIN kret.value :
            ix < j =>
                /\ ~(kret.value[ix].gap = "Isolated concept"
                     /\ kret.value[j].gap = "Weak evidence for")
                /\ (kret.value[ix].gap = kret.value[j].gap
                    => FirstAdded(kret.value[ix].concept) < FirstAdded(kret.value[j].concept))

\* C12, amended: the gaps are listed concept by concept, in the order in which
\* the concepts were first added, and for one concept the weak-evidence gap comes
\* before the isolation gap; no gap is listed twice.
C12_GapsConceptByConcept ==
    Found =>
        \A ix, j \in DOMAIN kret.value :
            ix < j =>
                \/ FirstAdded(kret.value[ix].concept) < FirstAdded(kret.value[j].concept)
                \/ /\ kret.value[ix].concept = kret.value[j].concept
                   /\ kret.value[ix].gap = "Weak evidence for"
                   /\ kret.value[j].gap = "Isolated concept"

\* two concepts with weak evidence: the isolation gap of the first is listed
\* before the weak-evidence gap of the second
C12_Witness ==
    /\ Found
    /\ Len(kret.value) = 4
    /\ kret.value[2].gap = "Isolated concept"
    /\ kret.value[3].gap = "Weak evidence for"
    /\ kret.value[2].concept # kret.value[3].concept

\* C13 as stated: the gaps hold one weak-evidence entry for exactly the concepts
\* whose evidence level is below 0.7 and one isolation entry for exactly the
\* concepts that take part in no relationship.
C13_GapsAreWeakAndUnrelated ==
    Found =>
        /\ GapConcepts("Weak evidence for") = { c \in Added : LatestEvidence(c) < 7 }
        /\ GapConcepts("Isolated concept") = { c \in Added : ~InRelationship(c) }
        /\ \A ix, j \in DOMAIN kret.value : kret.value[ix] = kret.value[j] => ix = j

\* two concepts were added and related to each other, and both are reported isolated
C13_Witness ==
    /\ Found
    /\ Added = { "c1", "c2" }
    /\ InRelationship("c1")
    /\ InRelationship("c2")
    /\ GapConcepts("Isolated concept") = { "c1", "c2" }

\* C14 as stated: every concept stored in the graph has an evidence level
\* within [0,1], here 0 to 10 tenths.
C14_EvidenceWithinScale ==
    \A ix \in DOMAIN concepts :
        /\ 0 <= concepts[ix].value.evidence_level
        /\ concepts[ix].value.evidence_level <= 10

\* research has stored a concept of an output with the evidence level the
\* output gave it, 1.2
C14_Witness ==
    /\ variant = "knowledge"
    /\ pc = "running"
    /\ \E ix \in DOMAIN returns :
          /\ returns[ix].output.has_concepts
          /\ \E j \in DOMAIN returns[ix].output.concepts :
                returns[ix].output.concepts[j].evidence_level = 12
    /\ "c3" \in DictKeys(concepts)
    /\ DictGet(concepts, "c3").evidence_level = 12

-----------------------------------------------------------------------------
(* Claims about a pipeline run *)

\* the run has handed its record back to the driver
Returned == pc \in {"returned", "saved"}

\* the keys of a returned record other than the brief and the metadata
PhaseKeys(rec) == DOMAIN rec \ {"brief", "metadata"}

\* the phase of the run that assigns x has completed
Completed(x) ==
    CASE x = "register_topic" -> Len(registrations) = 1
      [] x = "return"         -> record # NoRecord
      [] OTHER                -> locals[x] # Unset

\* s is an initial part of t
IsPrefix(s, t) == Len(s) <= Len(t) /\ \A ix \in DOMAIN s : s[ix] = t[ix]

\* the phases in started whose work is a call of the collaborator
CallsStarted == { ix \in DOMAIN started : started[ix] \in DOMAIN locals
                                         /\ started[ix] # "knowledge_gaps" }

C2_FailedRunReturnsAndSavesNothing ==
    failedAt # "none" =>
        /\ pc = "failed"
        /\ record = NoRecord
        /\ saved = <<>>

\* the collaborator has failed in the third phase of a content run, after two
\* phases that completed
C2_Witness ==
    /\ variant = "content"
    /\ pc = "failed"
    /\ error \in CollaboratorErrors
    /\ failedAt = "structure"
    /\ locals["seo_data"] # Unset
    /\ locals["headlines"] # Unset
    /\ saved = <<>>

\* C3 as stated: when the collaborator fails in a phase, the error that reaches
\* the caller of the orchestrator carries the name of that phase.
C3_ErrorNamesFailedPhase ==
    (pc = "failed" /\ error \in CollaboratorErrors) =>
        failedAt \in { error[f] : f \in DOMAIN error }

\* the collaborator has timed out in the third phase of a knowledge run
C3_Witness ==
    /\ variant = "knowledge"
    /\ pc = "failed"
    /\ error.type = "TimeoutError"
    /\ failedAt = "data_analysis"

\* C4: the phases of a content run start in the order research, headlines,
\* structure, evidence, writing, SEO optimization, readability edit, CTA pass,
\* quality audit, registration in the graph, aggregate; when a phase starts every
\* phase before it has completed; no phase starts twice, and the collaborator is
\* called once for each phase that has started.
C4_ContentPhasesInDeclaredOrder ==
    variant = "content" =>
        /\ IsPrefix(started, << "seo_data", "headlines", "structure", "data", "content",
                               "optimized", "edited", "with_ctas", "final",
                               "register_topic", "return" >>)
        /\ \A ix \in DOMAIN started : ix < Len(started) => Completed(started[ix])
        /\ \A ix, j \in DOMAIN started : started[ix] = started[j] => ix = j
        /\ Len(calls) = Cardinality(CallsStarted)
        /\ \A ix \in DOMAIN calls : calls[ix].var = started[ix]
        /\ Len(registrations) <= 1

\* a content run has gone through its eleven phases
C4_Witness ==
    /\ variant = "content"
    /\ pc = "returned"
    /\ Len(started) = 11
    /\ Len(calls) = 9
    /\ Len(registrations) = 1

\* C5: in a knowledge run at most one phase is in flight, the phase in flight is
\* the one that started last, every phase that started before it has completed,
\* and the phases start in the declared order, siblings included.
C5_KnowledgeOnePhaseInFlight ==
    variant = "knowledge" =>
        /\ Cardinality(inflight) <= 1
        /\ \A k \in inflight : k = Len(started) /\ locals[started[k]] = Unset
        /\ \A ix \in DOMAIN started : ix < Len(started) => Completed(started[ix])
        /\ IsPrefix(started, << "primary_sources", "academic_research", "data_analysis",
                               "industry_trends", "historical_context", "contrarian_views",
                               "concept_map", "frameworks", "explanations", "analogies",
                               "examples", "visuals", "verification", "questions",
                               "synthesis", "knowledge_gaps", "return" >>)

\* academic research is in flight, after primary-source research, its sibling,
\* has completed
C5_Witness ==
    /\ variant = "knowledge"
    /\ inflight = {2}
    /\ started = << "primary_sources", "academic_research" >>
    /\ locals["primary_sources"] # Unset
    /\ locals["academic_research"] = Unset

-----------------------------------------------------------------------------
(* What the calls made so far say, read from the history alone *)

Registered == TopicsOf(registrations)

\* the place of the first and of the last call that named topic t
FirstReg(t) == LET at == { ix \in DOMAIN registrations : registrations[ix].topic = t }
               IN  CHOOSE ix \in at : \A j \in at : ix <= j

LastReg(t) == LET at == { ix \in DOMAIN registrations : registrations[ix].topic = t }
              IN  CHOOSE ix \in at : \A j \in at : j <= ix

\* the distinct keywords of topic t's latest registration
LastKeywords(t) == ToSet(registrations[LastReg(t)].keywords)

Shared(t, o) == LastKeywords(t) \cap LastKeywords(o)

\* the other registered topics that share a keyword with t
Sharing(t) == { o \in Registered \ {t} : Shared(t, o) # {} }

\* |Shared(t, o)| / |LastKeywords(t)|
Ratio(t, o) == [num |-> Cardinality(Shared(t, o)), den |-> Cardinality(LastKeywords(t))]

Queried == ret.op = "get_related_content"

QueriedKnown == Queried /\ ret.topic \in Registered

ResultTopics == { ret.value[ix].topic : ix \in DOMAIN ret.value }

\* how often topic t was registered under keyword k, counting repeats within a list
RECURSIVE TimesRegistered(_, _, _)
TimesRegistered(regs, t, k) ==
    IF regs = <<>> THEN 0
    ELSE (IF Head(regs).topic = t THEN Count(Head(regs).keywords, k) ELSE 0)
         + TimesRegistered(Tail(regs), t, k)

\* keyword_map.get(k, [])
IndexOf(k) == IF k \in DictKeys(keyword_map) THEN DictGet(keyword_map, k) ELSE <<>>

-----------------------------------------------------------------------------
(* C6: after any sequence of register_topic calls, get_related_content(topic)
   returns at most 5 entries and none of them has the queried topic as its
   topic. *)
C6_AtMostFiveNeverSelf ==
    Queried =>
        /\ ret.raised = "none"
        /\ Len(ret.value) <= 5
        /\ \A ix \in DOMAIN ret.value : ret.value[ix].topic # ret.topic

\* more than 5 other topics share a keyword with the queried one, and 5 come back
C6_Witness ==
    /\ QueriedKnown
    /\ Cardinality(Sharing(ret.topic)) > 5
    /\ Len(ret.value) = 5

(* C7 as stated: get_related_content(t) has an entry for another registered
   topic exactly when that topic shares at least one keyword with t, and the
   entry carries the shared keywords and the relevance
   |shared| / |distinct keywords of t|. *)
C7_EntryExactlyWhenShared ==
    QueriedKnown =>
        /\ \A o \in Registered \ {ret.topic} : o \in ResultTopics <=> o \in Sharing(ret.topic)
        /\ \A ix \in DOMAIN ret.value :
              /\ ret.value[ix].overlap = Shared(ret.topic, ret.value[ix].topic)
              /\ RelEq(ret.value[ix].relevance, Ratio(ret.topic, ret.value[ix].topic))

(* C7 amended: every entry of get_related_content(t) is for another registered
   topic that shares at least one keyword with t, no topic has two entries, and
   the entry carries the shared keywords and the relevance
   |shared| / |distinct keywords of t|; every topic that shares a keyword with t
   has an entry when at most 5 topics do, and otherwise 5 of them have one.
   After register(A,[x,y]) and register(B,[y,z]), related(A) is the single
   entry for B with overlap [y] and relevance 0.5. *)
C7_EntriesAreTheSharingTopics ==
    /\ QueriedKnown =>
          /\ ret.raised = "none"
          /\ ResultTopics \subseteq Sharing(ret.topic)
          /\ \A ix, j \in DOMAIN ret.value :
                ret.value[ix].topic = ret.value[j].topic => ix = j
          /\ \A ix \in DOMAIN ret.value :
                /\ ret.value[ix].overlap = Shared(ret.topic, ret.value[ix].topic)
                /\ RelEq(ret.value[ix].relevance, Ratio(ret.topic, ret.value[ix].topic))
          /\ Len(ret.value) = Min(5, Cardinality(Sharing(ret.topic)))
    /\ ( /\ Queried
         /\ ret.topic = 1
         /\ registrations = << [topic |-> 1, keywords |-> <<"x", "y">>],
                               [topic |-> 2, keywords |-> <<"y", "z">>] >> )
       => /\ Len(ret.value) = 1
          /\ ret.value[1].topic = 2
          /\ ret.value[1].overlap = {"y"}
          /\ RelEq(ret.value[1].relevance, [num |-> 1, den |-> 2])

\* the scenario of the claim: register(A,[x,y]); register(B,[y,z]); related(A)
C7_Witness ==
    /\ Queried
    /\ ret.topic = 1
    /\ registrations = << [topic |-> 1, keywords |-> <<"x", "y">>],
                          [topic |-> 2, keywords |-> <<"y", "z">>] >>
    /\ Len(ret.value) = 1

(* C8: the entries returned by get_related_content are the 5 highest by
   relevance, in descending relevance order, and entries of equal relevance
   appear in the order in which their topics were (first) registered. *)
C8_TopFiveDescendingStable ==
    QueriedKnown =>
        LET t == ret.topic
            ratio == [o \in Registered |-> Ratio(t, o)]
            first == [o \in Registered |-> FirstReg(o)]
            \* o ranks before p: more relevant, or as relevant and registered earlier
            Before(o, p) ==
                \/ RelLess(ratio[p], ratio[o])
                \/ RelEq(ratio[p], ratio[o]) /\ first[o] < first[p]
        IN  /\ \A ix, j \in DOMAIN ret.value :
                  ix < j => Before(ret.value[ix].topic, ret.value[j].topic)
            /\ \A o \in Sharing(t) \ ResultTopics :
                  \A p \in ResultTopics : Before(p, o)
            /\ \A ix \in DOMAIN ret.value :
                  RelEq(ret.value[ix].relevance, ratio[ret.value[ix].topic])

\* a sharing topic is cut off, and the 5 returned hold a tie and a strict descent
C8_Witness ==
    /\ QueriedKnown
    /\ Len(ret.value) = 5
    /\ Sharing(ret.topic) \ ResultTopics # {}
    /\ \E ix \in 1 .. 4 : RelEq(ret.value[ix].relevance, ret.value[ix + 1].relevance)
    /\ \E ix \in 1 .. 4 : RelLess(ret.value[ix + 1].relevance, ret.value[ix].relevance)

(* C9: get_related_content returns the empty sequence, without raising an error
   and without changing the graph, when the queried topic was never registered
   or when no other topic shares a keyword with it (including when the topic
   was registered with an empty keyword list). *)
C9_EmptyWhenUnknownOrNoOverlap ==
    [][ ( /\ ret'.op = "get_related_content"
          /\ ret.op # "get_related_content"
          /\ \/ ret'.topic \notin Registered
             \/ Sharing(ret'.topic) = {} )
        => /\ ret'.value = <<>>
           /\ ret'.raised = "none"
           /\ topics_covered' = topics_covered
           /\ keyword_map' = keyword_map ]_vars

\* a topic registered with an empty keyword list is queried while another topic
\* has keywords
C9_Witness ==
    /\ QueriedKnown
    /\ LastKeywords(ret.topic) = {}
    /\ \E o \in Registered \ {ret.topic} : LastKeywords(o) # {}
    /\ ret.value = <<>>

(* C10: registering the same topic twice replaces the topic's stored keyword
   list with that of the second registration (last write wins), while the
   keyword inverted index keeps the entries of both registrations: the topic
   stays listed under the keywords of the first registration and is listed
   twice under a keyword present in both. *)
C10_LastWriteWinsIndexAccumulates ==
    /\ DictKeys(topics_covered) = Registered
    /\ \A t \in Registered :
          DictGet(topics_covered, t).keywords = registrations[LastReg(t)].keywords
    /\ \A k \in Keywords :
          LET listed == IndexOf(k)
          IN  \A t \in Registered :
                  Count(listed, t) = TimesRegistered(registrations, t, k)

\* topic 1 was registered with [x,y] and then with [y,z]
C10_Witness ==
    /\ Len(registrations) >= 2
    /\ \E ix, j \in DOMAIN registrations :
          /\ ix < j
          /\ registrations[ix] = [topic |-> 1, keywords |-> <<"x", "y">>]
          /\ registrations[j] = [topic |-> 1, keywords |-> <<"y", "z">>]
          /\ LastReg(1) = j
    /\ DictGet(topics_covered, 1).keywords = <<"y", "z">>
    /\ Count(IndexOf("x"), 1) = 1
    /\ Count(IndexOf("y"), 1) = 2

\* the keyword list a task registers its topic with
TaskKeywords(t) == <<tasks[t].brief.primary_keyword>> \o tasks[t].brief.secondary_keywords

\* the task has passed its register_topic statement
TaskRegistered(t) == tasks # <<>> /\ tasks[t].step > 10

\* C15: when two runs share one graph and register different topics, however
\* their steps interleave, the topic of a run that has registered is in
\* topics_covered with the keyword list of that run, and is listed under each of
\* its keywords as often as the list names the keyword: no registration is lost
\* or cut in two by the other's.
C15_NoRegistrationLost ==
    (tasks # <<>> /\ tasks[1].brief.topic # tasks[2].brief.topic) =>
        \A t \in TaskIds :
            TaskRegistered(t) =>
                /\ tasks[t].brief.topic \in DictKeys(topics_covered)
                /\ DictGet(topics_covered, tasks[t].brief.topic).keywords = TaskKeywords(t)
                /\ \A k \in Keywords :
                      Count(IndexOf(k), tasks[t].brief.topic) = Count(TaskKeywords(t), k)

\* both runs have returned, the second one registered first while the first was
\* waiting for the collaborator, and the two topics share a keyword
C15_Witness ==
    /\ tasks # <<>>
    /\ tasks[1].status = "returned"
    /\ tasks[2].status = "returned"
    /\ tasks[1].brief.topic # tasks[2].brief.topic
    /\ Len(registrations) = 2
    /\ registrations[1].topic = tasks[2].brief.topic
    /\ Len(IndexOf("y")) >= 2

\* C16 as stated: the runs of one process share one graph, so once the run in
\* progress has registered its topic, get_related_content for that topic has an
\* entry for every other topic that a completed run of the process registered
\* (each brief shares a keyword with every other brief).
C16_EarlierTopicsVisible ==
    (variant = "content" /\ Len(registrations) = 1) =>
        \A t \in completed_topics \ {brief.topic} :
            \E ix \in DOMAIN get_related_content(brief.topic).value :
                get_related_content(brief.topic).value[ix].topic = t

\* a run started through generate_blog_post after a run for topic 1 completed
\* has registered topic 2, and topic 1 is not in its graph
C16_Witness ==
    /\ variant = "content"
    /\ pc = "returned"
    /\ brief.topic = 2
    /\ 1 \in completed_topics
    /\ DictKeys(topics_covered) = {2}
    /\ get_related_content(2).value = <<>>

\* the key of the returned record that holds the result assigned to x, "" when
\* the record has no key for it
RecordKey(x) ==
    CASE x = "seo_data"  -> "seo_research"
      [] x = "final"     -> "final_content"
      [] x = "questions" -> "anticipated_questions"
      [] x \in {"content", "optimized", "edited", "with_ctas"} -> ""
      [] OTHER           -> x

\* C17: what the collaborator handed back for a phase stays, unchanged, the
\* value of that phase's variable for the rest of the run, each phase has one
\* result, and the value under a phase key of the returned record is the value
\* the collaborator handed back for that phase.
C17_ResultsStayAsReturned ==
    /\ \A ix \in DOMAIN returns : locals[returns[ix].var] = returns[ix].output
    /\ \A ix, j \in DOMAIN returns : returns[ix].var = returns[j].var => ix = j
    /\ Returned =>
          \A ix \in DOMAIN returns :
              RecordKey(returns[ix].var) # "" =>
                  /\ RecordKey(returns[ix].var) \in PhaseKeys(record)
                  /\ record[RecordKey(returns[ix].var)] = returns[ix].output

\* a content run has returned a record whose final content is the output, not
\* the plain one, that the collaborator handed back for the quality audit, after
\* eight more phases had their results
C17_Witness ==
    /\ variant = "content"
    /\ pc = "returned"
    /\ Len(returns) = 9
    /\ returns[9].var = "final"
    /\ returns[9].output.body = "b"
    /\ record.final_content = returns[9].output

\* what the collaborator handed back for the phase that assigns x
OutputOf(x) == returns[CHOOSE ix \in DOMAIN returns : returns[ix].var = x].output

\* C18 as stated: the call of every phase carries, as an item of its context,
\* the result of each earlier phase that the statement of the phase reads, and
\* every result it carries is one the collaborator handed back earlier in the run.
C18_ContextHoldsEveryResultRead ==
    \A ix \in DOMAIN calls :
        /\ \A x \in Reads(variant, calls[ix].var) :
              \E item \in calls[ix].context :
                  item[1] # "claims" /\ item[2] = OutputOf(x)
        /\ \A item \in calls[ix].context :
              item[1] # "claims" =>
                  \E j \in DOMAIN returns : item[2] = returns[j].output

\* concept mapping has been called without context, after primary-source and
\* academic research, which its statement reads, had their results
C18_Witness ==
    /\ variant = "knowledge"
    /\ Len(calls) >= 7
    /\ calls[7].var = "concept_map"
    /\ calls[7].context = {}
    /\ locals["primary_sources"] # Unset
    /\ locals["academic_research"].has_concepts

\* the tasks of the specialized methods that are given the brief of the run
\* and results of earlier phases
HandOnTasks == { "generate_headlines", "design_structure", "gather_evidence", "write_content" }

\* the tasks of the specialized methods that are given a topic and build the
\* brief of their call themselves
OwnBriefTasks == { "research_keywords", "find_primary_sources", "analyze_data",
                   "map_concepts", "create_explanations" }

\* C19 as stated: the call a specialized method makes carries the brief of the
\* run, and as context the results the method was given, as the call of an
\* unspecialized agent does.
C19_SpecializedCallsCarryRunBrief ==
    \A ix \in DOMAIN calls :
        calls[ix].task \in HandOnTasks \cup OwnBriefTasks =>
            /\ calls[ix].brief = brief
            /\ Reads(variant, calls[ix].var) # {} => calls[ix].context # {}

\* a content run has made the calls of research_keywords, with a brief of its
\* own and no context, and of write_content, with the brief of the run and the
\* three results the writer was given
C19_Witness ==
    /\ variant = "content"
    /\ Len(calls) >= 5
    /\ calls[1].task = "research_keywords"
    /\ calls[1].brief # brief
    /\ calls[5].task = "write_content"
    /\ calls[5].brief = brief
    /\ Cardinality(calls[5].context) = 3

\* the variables the run assigns from a call of the collaborator
CallVars ==
    LET steps == Steps(variant)
    IN  { steps[k].var : k \in { n \in DOMAIN steps : steps[n].kind = "call" } }

\* the collaborator has failed in this run
CollaboratorFailed == thrown # NoError

\* C20: the collaborator is called once for each phase that has started and
\* hands back one output for each phase that has completed; after a failure of
\* the collaborator the failed call is the last call of the run, the variable
\* of the failed phase holds no value, and the error that reaches the caller of
\* the orchestrator is the exception the collaborator raised.
C20_OneCallPerPhaseFailureUnchanged ==
    /\ LET called   == { calls[ix].var : ix \in DOMAIN calls }
           answered == { returns[j].var : j \in DOMAIN returns }
       IN  /\ Cardinality(called) = Len(calls)
           /\ Cardinality(answered) = Len(returns)
           /\ answered \subseteq called
           /\ answered = { x \in CallVars \cap DOMAIN locals : Completed(x) }
    /\ Len(calls) = Len(returns) + Cardinality(inflight)
                        + (IF CollaboratorFailed THEN 1 ELSE 0)
    /\ CollaboratorFailed =>
          /\ pc = "failed"
          /\ error = thrown
          /\ calls[Len(calls)].var = failedAt
          /\ locals[failedAt] = Unset
          /\ inflight = {}
          /\ record = NoRecord

\* the collaborator has raised an APIError in the fifth phase of a knowledge
\* run: five calls were made, four handed back a result, and the caller holds
\* the APIError
C20_Witness ==
    /\ variant = "knowledge"
    /\ CollaboratorFailed
    /\ thrown.type = "APIError"
    /\ error = thrown
    /\ failedAt = "historical_context"
    /\ Len(calls) = 5
    /\ Len(returns) = 4
    /\ locals["industry_trends"] # Unset

\* the elements of a sequence
Range(s) == { s[ix] : ix \in DOMAIN s }

\* the agents whose generate/research was called in this run
AgentsInvoked == { calls[ix].agent : ix \in DOMAIN calls }

\* C21: the agents_used list in the metadata of a returned record names exactly
\* the agents that were invoked during the run, no more and no fewer.
C21_AgentsUsedAreAgentsInvoked ==
    record # NoRecord => Range(record.metadata.agents_used) = AgentsInvoked

\* a content run has returned its record: nine agents were invoked, and
\* agents_used also lists fact_checker, which made no call
C21_Witness ==
    /\ variant = "content"
    /\ record # NoRecord
    /\ Cardinality(AgentsInvoked) = 9
    /\ "fact_checker" \in Range(record.metadata.agents_used)
    /\ "fact_checker" \notin AgentsInvoked

\* C22: no step of a pipeline run changes the brief the run was given, and the
\* brief entry of the record the run returns holds exactly the fields of that
\* brief.
C22_BriefUnchangedByRun ==
    [][ /\ pc = "running" => brief' = brief
        /\ record' # NoRecord =>
              /\ DOMAIN record'.brief = DOMAIN brief'
              /\ \A f \in DOMAIN brief' : record'.brief[f] = brief'[f] ]_vars

\* a knowledge run on the second brief has made all its calls and returned its
\* record, whose brief entry is the brief of the run
C22_Witness ==
    /\ variant = "knowledge"
    /\ pc = "returned"
    /\ brief.topic = 2
    /\ Len(calls) = 15
    /\ record.brief = brief

RECURSIVE ConceptsInOrder(_, _)
\* the concepts of a graph to which the results L of the first n statements
\* were added in the order of the statements
ConceptsInOrder(L, n) ==
    IF n = 0 THEN <<>>
    ELSE IF KnowledgeSteps[n].kind = "call"
         THEN AddFindings(ConceptsInOrder(L, n - 1), L[KnowledgeSteps[n].var])
         ELSE ConceptsInOrder(L, n - 1)

\* the record of the run that awaits one statement after the other and is
\* handed the results L
SequentialRecord(b, L) ==
    KnowledgeRecord(b, [L EXCEPT !["knowledge_gaps"] =
        [gaps |-> find_knowledge_gaps(ConceptsInOrder(L, Len(KnowledgeSteps)))]])

C24_RunFailsOnlyWithCollaborator ==
    pc = "failed" => CollaboratorFailed

\* the collaborator answered every call, the primary-source research with
\* concepts, and the run failed with a TypeError before the concept mapping call
C24_Witness ==
    /\ variant = "knowledge"
    /\ pc = "failed"
    /\ ~CollaboratorFailed
    /\ error.type = "TypeError"
    /\ failedAt = "concept_map"
    /\ Len(returns) = 6
    /\ locals["primary_sources"].has_concepts
    /\ record = NoRecord

\* a driver builds a new orchestrator, and with it new, empty graphs
BuildsOrchestrator == pc \in {"idle", "saved"} /\ pc' = "running"

C26_StoredKeywordsAreIndexed ==
    \A ix \in DOMAIN topics_covered :
        \A k \in ToSet(topics_covered[ix].value.keywords) :
            /\ k \in DictKeys(keyword_map)
            /\ topics_covered[ix].key \in ToSet(DictGet(keyword_map, k))

\* a topic was registered a second time with another list of keywords, of
\* which there are two or more, and another topic is registered as well
C26_Witness ==
    /\ \E ix, j \in DOMAIN registrations :
          /\ ix < j
          /\ registrations[ix].topic = registrations[j].topic
          /\ ToSet(registrations[ix].keywords) # ToSet(registrations[j].keywords)
          /\ Cardinality(ToSet(registrations[j].keywords)) >= 2
    /\ Cardinality(DictKeys(topics_covered)) >= 2

RECURSIVE SeriesTopics(_)
\* topics_covered after the registrations of the first n posts of the series
SeriesTopics(n) ==
    IF n = 0 THEN <<>>
    ELSE DictSet(SeriesTopics(n - 1), subtopics[n],
                 [keywords |-> <<SeriesBrief(subtopics[n]).primary_keyword>>,
                  performance |-> [status |-> "completed", score |-> 0]])

RECURSIVE SeriesIndex(_)
\* keyword_map after the registrations of the first n posts of the series
SeriesIndex(n) ==
    IF n = 0 THEN <<>>
    ELSE IndexAll(SeriesIndex(n - 1), <<SeriesBrief(subtopics[n]).primary_keyword>>,
                  subtopics[n])

\* C27: a content run registers its topic only after all its phases, the
\* quality audit included, have handed back a result: while a phase has no
\* result, and when the collaborator has failed in a phase, topics_covered and
\* keyword_map are as they were before the run.
C27_GraphUntouchedUntilAudited ==
    (variant = "content" /\ pc \in {"running", "failed"}) =>
        (((\E x \in CallVars : locals[x] = Unset) \/ CollaboratorFailed) =>
            /\ topics_covered = SeriesTopics(Len(posts))
            /\ keyword_map = SeriesIndex(Len(posts)))

\* the first post of a series is registered, and the collaborator has failed
\* in the quality audit of the second, on another subtopic
C27_Witness ==
    /\ Len(posts) = 1
    /\ pc = "failed"
    /\ CollaboratorFailed
    /\ failedAt = "final"
    /\ subtopics[2] # subtopics[1]
    /\ DictKeys(topics_covered) = {subtopics[1]}
    /\ locals["with_ctas"] # Unset

\* C29: create_content_series builds one post per subtopic, in the order of the
\* subtopics, and returns them all; the first post has no internal_links
\* entry; every later post has one, and each of its entries names a subtopic
\* that comes earlier in the list and is not the post's own.
C29_SeriesPostsAndLinks ==
    /\ Len(posts) <= Len(subtopics)
    /\ pc = "series_done" => Len(posts) = Len(subtopics)
    /\ \A ix \in DOMAIN posts :
          /\ posts[ix].brief.topic = subtopics[ix]
          /\ ix = 1 => "internal_links" \notin DOMAIN posts[ix]
          /\ ix > 1 =>
                /\ "internal_links" \in DOMAIN posts[ix]
                /\ \A n \in DOMAIN posts[ix].internal_links :
                      /\ posts[ix].internal_links[n].topic
                             \in { subtopics[j] : j \in 1 .. (ix - 1) }
                      /\ posts[ix].internal_links[n].topic # subtopics[ix]

\* a series of three posts has been returned: the second subtopic shares no
\* keyword with the first and has no links, the third has the keyword of the
\* first and links to it
C29_Witness ==
    /\ pc = "series_done"
    /\ Len(posts) = 3
    /\ posts[2].internal_links = <<>>
    /\ Len(posts[3].internal_links) = 1
    /\ posts[3].internal_links[1].topic = subtopics[1]

\* the names of the concepts carried by the results the phases have handed back
ConceptsHandedBack ==
    UNION { { locals[x].concepts[ix].name : ix \in DOMAIN locals[x].concepts } :
            x \in { y \in CallVars \cap DOMAIN locals : locals[y] # Unset } }

\* the statements before statement n that are calls
CallsBefore(n) == { k \in 1 .. (n - 1) : KnowledgeSteps[k].kind = "call" }

-----------------------------------------------------------------------------
(* Claims about markdown_to_astro_html *)

\* the lines the index has moved past, each once, and no other line
VisitedUpToIndex ==
    /\ i <= Len(lines)
    /\ \A k \in DOMAIN lines : visits[k] = (IF k <= i THEN 1 ELSE 0)

\* the items the inner loop has collected are the lines just before the index,
\* in order
BulletsAreLinesBeforeIndex ==
    \A k \in DOMAIN bullets : bullets[k].line = i - Len(bullets) + k - 1

\* a pass through the body of the main loop that takes no bullet branch
PlainIteration == where = "loop" /\ where' = "loop"

\* the end of a bullet branch: the inner loop is over and the main loop goes on
BulletBranchEnds == where = "bullets" /\ where' = "loop"

\* C30: markdown_to_astro_html terminates on every text.  A pass through the
\* body of the main loop moves the line index on by at least one: by one in
\* every branch but the bullet branch, and in the bullet branch by the number of
\* lines its inner loop has taken, which is at least one.  The index never
\* moves back and never passes the end, every line is gone through exactly
\* once, and a started conversion reaches its return.
C30_ConverterTerminates ==
    /\ [][ /\ i' >= i
           /\ PlainIteration => i' = i + 1
           /\ BulletBranchEnds => Len(bullets) >= 1 ]_vars
    /\ [](where # "none" => VisitedUpToIndex)
    /\ [](where = "bullets" => BulletsAreLinesBeforeIndex)
    /\ [](where = "done" => i = Len(lines) /\ \A k \in DOMAIN lines : visits[k] = 1)
    /\ ((where = "loop") ~> (where = "done"))

\* a text of several lines whose bullet list, of a line that is indented, has
\* been taken by the bullet branch, and the conversion has returned
C30_Witness ==
    /\ where = "done"
    /\ Len(lines) = MaxLines
    /\ \E e \in Range(section_content) \cup
               UNION { Range(h.content) : h \in Range(html_parts) } :
           /\ e.tag = "ul"
           /\ Len(e.items) >= 2
           /\ \E b \in Range(e.items) : Head(lines[b.line + 1]) = " "

====
